---- MODULE Spec2Model ----
(***************************************************************************)
(* Dedup + cache-aside sentiment pipeline of the review scraper:           *)
(*   - Sentiment.py            smart_batch_analyze (cache-aside batch)     *)
(*   - DatabaseManager.py      sentiment_analysis table (upsert / lookup)  *)
(*   - SentimentAnalyzer.py    remote path and rule-based fallback         *)
(*   - ReviewScraper.py        fingerprint index with its cache file       *)
(*   - ReviewCleaner.py        validity filter and text cleaning           *)
(* Spec is the batch endpoint with its store; SpecDedup is the scraper     *)
(* with its fingerprint index.                                             *)
(*                                                                         *)
(* Python values are modelled as follows.  A str is a sequence of          *)
(* one-character strings; an optional value is <<>> (None) or <<v>>; a     *)
(* dict is a function whose DOMAIN is its set of keys, so d[k] on a        *)
(* missing key is a KeyError; scores are integers in thousandths.          *)
(***************************************************************************)
EXTENDS Integers, Sequences, FiniteSets, TLC

\* ------------------------------------------------------------------------
\* Bounds of the model
\* ------------------------------------------------------------------------
MaxBatch == 2      \* longest reviews array of one request
MaxReviews == 3    \* reviews submitted in one behaviour, over all its requests
MaxInstances == 2  \* ReviewScraper instances of one process
MaxScrapes == 2    \* scrape_location calls in one behaviour
MaxResets == 1     \* reset calls in one behaviour
MaxRestarts == 1   \* restarts of the process in one behaviour
MaxHash == 1       \* largest value of the str hash

\* ------------------------------------------------------------------------
\* Python helpers
\* ------------------------------------------------------------------------
None == <<>>
Some(v) == <<v>>
IsNone(o) == o = <<>>

\* dict.get(key, default)
Get(d, k, default) == IF k \in DOMAIN d THEN d[k] ELSE default

\* d with d[k] = v
Put(d, k, v) == [x \in DOMAIN d \cup {k} |-> IF x = k THEN v ELSE d[x]]

\* x in q
InSeq(x, q) == \E k \in 1..Len(q) : q[k] = x

\* an exception object; str(e) is its msg
Exc(type, m) == [exc |-> type, msg |-> m]
IsException(x) == "exc" \in DOMAIN x
\* d[key] of a dict without key: str() of a KeyError is the repr of the key
KeyError(key) == Exc("KeyError", "'" \o key \o "'")

\* w in text
IsSubstring(w, text) ==
  \E i \in 0..(Len(text) - Len(w)) : SubSeq(text, i + 1, i + Len(w)) = w

UpperCase == <<"A", "B", "C", "D", "E", "F", "G", "H", "I", "J", "K", "L", "M", "N", "O", "P", "Q", "R", "S", "T", "U", "V", "W", "X", "Y", "Z">>
LowerCase == <<"a", "b", "c", "d", "e", "f", "g", "h", "i", "j", "k", "l", "m", "n", "o", "p", "q", "r", "s", "t", "u", "v", "w", "x", "y", "z">>

\* str.lower(), character by character
LowerChar(c) ==
  IF \E i \in 1..Len(UpperCase) : UpperCase[i] = c
    THEN LowerCase[CHOOSE i \in 1..Len(UpperCase) : UpperCase[i] = c]
    ELSE c
Lower(text) == [i \in 1..Len(text) |-> LowerChar(text[i])]

\* ------------------------------------------------------------------------
\* SentimentAnalyzer.fallback_analysis: lexicon of the rule-based path
\* ------------------------------------------------------------------------
POSITIVE ==
  [ strong |->
    << <<"l", "u", "a", "r", " ", "b", "i", "a", "s", "a">>,
        <<"s", "a", "n", "g", "a", "t", " ", "b", "a", "g", "u", "s">>,
        <<"e", "x", "c", "e", "l", "l", "e", "n", "t">>,
        <<"p", "e", "r", "f", "e", "c", "t">>,
        <<"t", "e", "r", "b", "a", "i", "k">>,
        <<"s", "e", "m", "p", "u", "r", "n", "a">>,
        <<"i", "s", "t", "i", "m", "e", "w", "a">> >>,
    medium |->
    << <<"b", "a", "g", "u", "s">>,
        <<"b", "a", "i", "k">>,
        <<"e", "n", "a", "k">>,
        <<"p", "u", "a", "s">>,
        <<"s", "e", "n", "a", "n", "g">>,
        <<"r", "e", "c", "o", "m", "m", "e", "n", "d", "e", "d">>,
        <<"m", "a", "n", "t", "a", "p">>,
        <<"r", "a", "m", "a", "h">>,
        <<"c", "e", "p", "a", "t">>,
        <<"b", "e", "r", "s", "i", "h">>,
        <<"n", "y", "a", "m", "a", "n">> >>,
    weak |->
    << <<"l", "u", "m", "a", "y", "a", "n">>,
        <<"c", "u", "k", "u", "p">>,
        <<"o", "k">>,
        <<"o", "k", "e">> >> ]

NEGATIVE ==
  [ strong |->
    << <<"s", "a", "n", "g", "a", "t", " ", "b", "u", "r", "u", "k">>,
        <<"t", "e", "r", "r", "i", "b", "l", "e">>,
        <<"p", "a", "r", "a", "h", " ", "b", "a", "n", "g", "e", "t">>,
        <<"m", "e", "n", "g", "e", "c", "e", "w", "a", "k", "a", "n", " ", "s", "e", "k", "a", "l", "i">>,
        <<"w", "o", "r", "s", "t">> >>,
    medium |->
    << <<"b", "u", "r", "u", "k">>,
        <<"j", "e", "l", "e", "k">>,
        <<"k", "e", "c", "e", "w", "a">>,
        <<"l", "a", "m", "b", "a", "t">>,
        <<"l", "a", "m", "a">>,
        <<"m", "a", "h", "a", "l">>,
        <<"k", "o", "t", "o", "r">>,
        <<"t", "i", "d", "a", "k", " ", "e", "n", "a", "k">>,
        <<"k", "u", "r", "a", "n", "g">>,
        <<"r", "u", "s", "a", "k">> >>,
    weak |->
    << <<"t", "i", "d", "a", "k">>,
        <<"k", "u", "r", "a", "n", "g">>,
        <<"b", "i", "a", "s", "a", " ", "a", "j", "a">> >> ]

THEMES ==
  << [ theme |-> "Kualitas Produk",
       keywords |->
       << <<"m", "a", "k", "a", "n", "a", "n">>,
         <<"r", "a", "s", "a">>,
         <<"e", "n", "a", "k">>,
         <<"m", "e", "n", "u">>,
         <<"p", "r", "o", "d", "u", "k">>,
         <<"l", "e", "z", "a", "t">>,
         <<"f", "r", "e", "s", "h">> >> ],
     [ theme |-> "Kualitas Pelayanan",
       keywords |->
       << <<"p", "e", "l", "a", "y", "a", "n", "a", "n">>,
         <<"s", "e", "r", "v", "i", "c", "e">>,
         <<"r", "a", "m", "a", "h">>,
         <<"s", "t", "a", "f", "f">>,
         <<"k", "a", "r", "y", "a", "w", "a", "n">>,
         <<"s", "o", "p", "a", "n">> >> ],
     [ theme |-> "Harga & Value",
       keywords |->
       << <<"h", "a", "r", "g", "a">>,
         <<"m", "a", "h", "a", "l">>,
         <<"m", "u", "r", "a", "h">>,
         <<"v", "a", "l", "u", "e">>,
         <<"t", "e", "r", "j", "a", "n", "g", "k", "a", "u">> >> ],
     [ theme |-> "Kecepatan Layanan",
       keywords |->
       << <<"c", "e", "p", "a", "t">>,
         <<"l", "a", "m", "a">>,
         <<"t", "u", "n", "g", "g", "u">>,
         <<"a", "n", "t", "r", "i">>,
         <<"l", "a", "m", "b", "a", "t">> >> ],
     [ theme |-> "Kebersihan",
       keywords |->
       << <<"b", "e", "r", "s", "i", "h">>,
         <<"k", "o", "t", "o", "r">>,
         <<"h", "i", "g", "i", "e", "n", "i", "s">>,
         <<"r", "a", "p", "i">> >> ],
     [ theme |-> "Suasana",
       keywords |->
       << <<"s", "u", "a", "s", "a", "n", "a">>,
         <<"t", "e", "m", "p", "a", "t">>,
         <<"n", "y", "a", "m", "a", "n">>,
         <<"l", "o", "k", "a", "s", "i">>,
         <<"a", "t", "m", "o", "s", "f", "e", "r">> >> ] >>

\* Hits counting every occurrence of a keyword instead of its presence
Hits_by_occurrence(words, text) ==
  Cardinality({p \in (1..Len(words)) \X (0..Len(text)) :
                 /\ p[2] + Len(words[p[1]]) <= Len(text)
                 /\ SubSeq(text, p[2] + 1, p[2] + Len(words[p[1]])) = words[p[1]]})

\* sum(1 for w in words if w in text): presence per keyword, not occurrences
Hits(words, text) ==
  Cardinality({i \in 1..Len(words) : IsSubstring(words[i], text)})

Min(a, b) == IF a < b THEN a ELSE b
Max(a, b) == IF a > b THEN a ELSE b

\* (2*strong + 1*medium + 0.3*weak) in tenths
RawScore10(lexicon, text) ==
  20 * Hits(lexicon.strong, text) + 10 * Hits(lexicon.medium, text)
    + 3 * Hits(lexicon.weak, text)

\* pos_score / neg_score = min(raw / 5, 1.0), in fiftieths (50 is 1.0)
LexScore50(lexicon, text) == Min(RawScore10(lexicon, text), 50)

\* final_score = (pos - neg) * 0.7 + (rating - 3) / 2 * 0.3, in thousandths
FinalScore1000(pos50, neg50, rating) == 14 * (pos50 - neg50) + 150 * (rating - 3)

\* Classify with the thresholds included (>= 0.2, <= -0.2)
Classify_inclusive(final1000) ==
  IF final1000 >= 200 THEN "Positive"
  ELSE IF final1000 <= -200 THEN "Negative"
  ELSE "Neutral"

Classify(final1000) ==
  IF final1000 > 200 THEN "Positive"
  ELSE IF final1000 < -200 THEN "Negative"
  ELSE "Neutral"

\* round(x, 2) on a value in thousandths (ties to even), result in thousandths
PyRound2(x1000) ==
  LET a == IF x1000 < 0 THEN -x1000 ELSE x1000
      q == a \div 10
      r == a % 10
      m == IF r > 5 \/ (r = 5 /\ q % 2 = 1) THEN q + 1 ELSE q
  IN  IF x1000 < 0 THEN -(10 * m) ELSE 10 * m

ThemesOf(text) ==
  LET idx == {i \in 1..Len(THEMES) :
                \E k \in 1..Len(THEMES[i].keywords) :
                  IsSubstring(THEMES[i].keywords[k], text)}
      F[i \in 0..Len(THEMES)] ==
        IF i = 0 THEN <<>>
        ELSE IF i \in idx THEN Append(F[i - 1], THEMES[i].theme) ELSE F[i - 1]
  IN  IF idx = {} THEN <<"Pengalaman Umum">> ELSE F[Len(THEMES)]

Take(s, n) == SubSeq(s, 1, Min(n, Len(s)))

\* the templated reasons: <<template, parameters...>>
ReasonsOf(sentiment, pos50, neg50, rating) ==
  IF sentiment = "Positive" THEN
    <<  <<"apresiasi tinggi", 2 * pos50>> >>
      \o (IF rating >= 4 THEN << <<"rating mengkonfirmasi kepuasan", rating>> >> ELSE <<>>)
      \o << <<"tone positif">> >>
  ELSE IF sentiment = "Negative" THEN
    <<  <<"keluhan signifikan", 2 * neg50>> >>
      \o (IF rating <= 2 THEN << <<"rating ketidakpuasan serius", rating>> >> ELSE <<>>)
      \o << <<"kekecewaan perlu ditindaklanjuti">> >>
  ELSE
    <<  <<"pengalaman standar">>,
        <<"rating level netral", rating>>,
        <<"balance positif negatif", 2 * pos50, 2 * neg50>> >>

SuggestionsOf(sentiment, themes) ==
  LET has(t) == \E i \in 1..Len(themes) : themes[i] = t
  IN
  IF sentiment = "Negative" THEN
    << "URGENT follow-up customer" >>
      \o (IF has("Kualitas Pelayanan") THEN << "Training tim service" >> ELSE <<>>)
      \o (IF has("Kecepatan Layanan") THEN << "Optimasi workflow" >> ELSE <<>>)
      \o << "Tawarkan kompensasi" >>
  ELSE IF sentiment = "Positive" THEN
    << "Kirim thank you message", "Jadikan testimoni", "Maintain excellent quality" >>
  ELSE
    << "Monitor trend", "Proactive engagement", "Follow-up survey" >>

\* the note: a format string and its argument
NoteOf(error_msg) ==
  IF error_msg # "" THEN <<"Fallback used: ", error_msg>> ELSE <<"Rule-based analysis">>

\* the review texts of the model
Bagus == <<"B", "a", "g", "u", "s">>
Buruk == <<"b", "u", "r", "u", "k">>
Texts == {Bagus, Buruk}

\* lines 129-143 and 156-158 for one text: text = review.lower(), pos_score,
\* neg_score, themes
Lexical(review) ==
  LET text == Lower(review)
  IN  [ pos_score |-> LexScore50(POSITIVE, text),
        neg_score |-> LexScore50(NEGATIVE, text),
        themes    |-> ThemesOf(text) ]

\* Lexical, computed once for each text of the model
LexicalOfTexts == [t \in Texts |-> Lexical(t)]

\* fallback_analysis that lets the failure cause decide: Neutral whenever an
\* error message is given
fallback_analysis_by_cause(review, rating, review_id, error_msg) ==
  IF IsNone(rating) THEN Exc("TypeError", "unsupported operand type(s) for -")
  ELSE
    LET lex       == IF review \in Texts THEN LexicalOfTexts[review] ELSE Lexical(review)
        final     == FinalScore1000(lex.pos_score, lex.neg_score, rating[1])
        sentiment == IF error_msg # "" THEN "Neutral" ELSE Classify(final)
    IN  [ id               |-> review_id,
          review_text      |-> review,
          rating           |-> rating,
          sentiment        |-> sentiment,
          sentiment_score  |-> PyRound2(Max(-1000, Min(1000, final))),
          themes           |-> Take(lex.themes, 5),
          analysis_reasons |-> ReasonsOf(sentiment, lex.pos_score, lex.neg_score, rating[1]),
          ai_suggestions   |-> Take(SuggestionsOf(sentiment, lex.themes), 5),
          processing_time_ms |-> 0,
          source           |-> "rule_based_fallback",
          note             |-> NoteOf(error_msg) ]

\* fallback_analysis(review, rating, review_id, error_msg): the result dict,
\* or the exception it raises (rating None: TypeError at rating - 3)
fallback_analysis(review, rating, review_id, error_msg) ==
  IF IsNone(rating) THEN Exc("TypeError", "unsupported operand type(s) for -")
  ELSE
    LET lex       == IF review \in Texts THEN LexicalOfTexts[review] ELSE Lexical(review)
        final     == FinalScore1000(lex.pos_score, lex.neg_score, rating[1])
        sentiment == Classify(final)
    IN  [ id               |-> review_id,
          review_text      |-> review,
          rating           |-> rating,
          sentiment        |-> sentiment,
          sentiment_score  |-> PyRound2(Max(-1000, Min(1000, final))),
          themes           |-> Take(lex.themes, 5),
          analysis_reasons |-> ReasonsOf(sentiment, lex.pos_score, lex.neg_score, rating[1]),
          ai_suggestions   |-> Take(SuggestionsOf(sentiment, lex.themes), 5),
          processing_time_ms |-> 0,
          source           |-> "rule_based_fallback",
          note             |-> NoteOf(error_msg) ]

\* ------------------------------------------------------------------------
\* SentimentAnalyzer.analyze_with_github
\* ------------------------------------------------------------------------
\* What client.complete does in one call: it raises, or it returns a text
\* that json.loads rejects (json = None) or parses to a dict (json = <<d>>).
RemoteRaise(m)  == [kind |-> "raise", msg |-> m, json |-> None]
RemoteText(j)   == [kind |-> "text", msg |-> "", json |-> j]

\* answers of the model: one as the prompt asks for, one without themes, and
\* one with all required fields that keeps none of the prompt's limits
ModelOutputs ==
  { [ sentiment |-> "Positive", sentiment_score |-> 855,
      themes |-> <<"Pelayanan">>,
      analysis_reasons |-> <<"r1", "r2", "r3">>,
      ai_suggestions |-> <<"s1", "s2", "s3">> ],
    [ sentiment |-> "Negative", sentiment_score |-> -500,
      analysis_reasons |-> <<"r1", "r2", "r3">>,
      ai_suggestions |-> <<"s1", "s2", "s3">> ],
    [ sentiment |-> "Mixed", sentiment_score |-> 1500,
      themes |-> <<"t1", "t2", "t3", "t4", "t5", "t6">>,
      analysis_reasons |-> <<"r1">>,
      ai_suggestions |-> <<"s1", "s2", "s3", "s4", "s5", "s6">> ] }

RemoteBehaviours ==
  { RemoteRaise("timeout"), RemoteRaise(""), RemoteText(None) }
    \cup { RemoteText(Some(d)) : d \in ModelOutputs }

RequiredFields ==
  <<"sentiment", "sentiment_score", "themes", "analysis_reasons", "ai_suggestions">>

\* the exception raised inside the try block (lines 56-97), or None
RemoteFailure(has_client, remote) ==
  IF ~has_client THEN Some(Exc("Exception", "GitHub Models client not initialized. Check GITHUB_TOKEN."))
  ELSE IF remote.kind = "raise" THEN Some(Exc("HttpResponseError", remote.msg))
  ELSE IF IsNone(remote.json) THEN Some(Exc("JSONDecodeError", "Expecting value"))
  ELSE LET d == remote.json[1]
           missing == {i \in 1..Len(RequiredFields) : RequiredFields[i] \notin DOMAIN d}
       IN  IF missing # {}
             THEN Some(KeyError(RequiredFields[CHOOSE i \in missing : \A j \in missing : i <= j]))
             ELSE None

analyze_with_github(review, rating, review_id, reviewer_name, review_at, google, has_client, remote) ==
  LET e == RemoteFailure(has_client, remote)
  IN  IF IsNone(e) THEN
        LET result == remote.json[1]
        IN  [ id               |-> review_id,
              review_text      |-> review,
              rating           |-> rating,
              reviewer_name    |-> reviewer_name,
              review_at        |-> review_at,
              sentiment        |-> result.sentiment,
              sentiment_score  |-> result.sentiment_score,
              themes           |-> result.themes,
              analysis_reasons |-> result.analysis_reasons,
              ai_suggestions   |-> result.ai_suggestions,
              processing_time_ms |-> 0,
              source           |-> "github_models",
              is_google        |-> google ]
      ELSE fallback_analysis(review, rating, review_id, e[1].msg)

\* ------------------------------------------------------------------------
\* DatabaseManager: the sentiment_analysis table is a set of rows
\* ------------------------------------------------------------------------
\* a datetime string: ISO 8601 wall-clock fields plus offset, or not ISO at all
IsoDate(w, off) == [iso |-> TRUE, wall |-> w, offset |-> off]
BadDate(raw)    == [iso |-> FALSE, wall |-> raw, offset |-> ""]

\* parse_datetime_for_mysql: strftime of the parsed wall-clock fields (the
\* offset is dropped); None for an empty or unparsable string
parse_datetime_for_mysql(dt_str) ==
  IF IsNone(dt_str) THEN None
  ELSE IF dt_str[1].iso THEN Some([wall |-> dt_str[1].wall]) ELSE None

\* DECIMAL(3, 2): rounded to two decimals, half away from zero (thousandths)
Decimal32(x1000) ==
  LET a == IF x1000 < 0 THEN -x1000 ELSE x1000
      m == (a + 5) \div 10
  IN  IF x1000 < 0 THEN -(10 * m) ELSE 10 * m

\* keys read with result[...] while building the values tuple, in order
SaveKeys ==
  <<"id", "review_text", "rating", "reviewer_name", "sentiment", "sentiment_score",
    "themes", "analysis_reasons", "ai_suggestions", "processing_time_ms", "source">>

\* the row written by INSERT ... VALUES for result
RowOf(result, analyzed_at, updated_at) ==
  [ id               |-> result.id,
    review_text      |-> result.review_text,
    rating           |-> result.rating,
    reviewer_name    |-> result.reviewer_name,
    review_at        |-> parse_datetime_for_mysql(Get(result, "review_at", None)),
    sentiment        |-> result.sentiment,
    sentiment_score  |-> Decimal32(result.sentiment_score),
    themes           |-> result.themes,
    analysis_reasons |-> result.analysis_reasons,
    ai_suggestions   |-> result.ai_suggestions,
    processing_time_ms |-> result.processing_time_ms,
    source           |-> result.source,
    analyzed_at      |-> analyzed_at,
    updated_at       |-> updated_at ]

\* an INSERT IGNORE: a row already stored under the id is kept
Upsert_keep_first(rows, result, t) ==
  LET old == {r \in rows : r.id = result.id}
  IN  IF old = {} THEN rows \cup {RowOf(result, t, t)} ELSE rows

\* INSERT ... ON DUPLICATE KEY UPDATE at time t
Upsert(rows, result, t) ==
  LET old == {r \in rows : r.id = result.id}
  IN  IF old = {} THEN rows \cup {RowOf(result, t, t)}
      ELSE (rows \ old) \cup {RowOf(result, (CHOOSE r \in old : TRUE).analyzed_at, t)}

\* save_analysis(result): conn_ok says whether get_connection gave a
\* connection.  Returns [raised, value, rows]: the exception that escapes
\* (only mysql.connector.Error is caught), the bool returned, the table after.
save_analysis(result, conn_ok, rows, t) ==
  LET missing == {i \in 1..Len(SaveKeys) : SaveKeys[i] \notin DOMAIN result}
  IN  IF ~conn_ok THEN [raised |-> None, value |-> FALSE, rows |-> rows]
      ELSE IF missing # {} THEN
        [ raised |-> Some(KeyError(SaveKeys[CHOOSE i \in missing : \A j \in missing : i <= j])),
          value |-> FALSE, rows |-> rows ]
      ELSE IF IsNone(result.rating) THEN    \* rating INT NOT NULL: Error, caught
        [raised |-> None, value |-> FALSE, rows |-> rows]
      ELSE [raised |-> None, value |-> TRUE, rows |-> Upsert(rows, result, t)]

\* get_analysis(review_id): fetchone of the rows with that id, newest first
get_analysis(review_id, conn_ok, rows) ==
  LET found == {r \in rows : r.id = review_id}
  IN  IF ~conn_ok \/ found = {} THEN None
      ELSE Some(CHOOSE r \in found : \A q \in found : q.analyzed_at <= r.analyzed_at)

\* a lookup that matches on the id alone
is_analyzed_by_id(review_id, review_text, conn_ok, rows) ==
  ~IsNone(get_analysis(review_id, conn_ok, rows))

is_analyzed(review_id, review_text, conn_ok, rows) ==
  LET existing == get_analysis(review_id, conn_ok, rows)
  IN  ~IsNone(existing) /\ existing[1].review_text = review_text

\* ------------------------------------------------------------------------
\* ReviewCleaner
\* ------------------------------------------------------------------------
\* None where a str is expected (a str is a sequence of characters)
NoText == <<"None">>

\* str.strip and str.split without arguments work on whitespace
IsSpace(c) == c \in {" ", "\t", "\n"}

\* text.strip()
Strip(s) ==
  LET inked == {k \in 1..Len(s) : ~IsSpace(s[k])}
  IN  IF inked = {} THEN <<>>
      ELSE SubSeq(s, CHOOSE k \in inked : \A j \in inked : k <= j,
                     CHOOSE k \in inked : \A j \in inked : j <= k)

\* text.split(): the maximal runs of non-whitespace characters
Words(s) ==
  LET starts == {k \in 1..Len(s) : ~IsSpace(s[k]) /\ (k = 1 \/ IsSpace(s[k - 1]))}
      ends   == {k \in 1..Len(s) : ~IsSpace(s[k]) /\ (k = Len(s) \/ IsSpace(s[k + 1]))}
      Nth(positions, n) == CHOOSE k \in positions : Cardinality({j \in positions : j < k}) = n - 1
  IN  [n \in 1..Cardinality(starts) |-> SubSeq(s, Nth(starts, n), Nth(ends, n))]

\* " ".join(words)
RECURSIVE Join(_)
Join(words) ==
  IF words = <<>> THEN <<>>
  ELSE IF Len(words) = 1 THEN words[1]
  ELSE words[1] \o <<" ">> \o Join(Tail(words))

\* text.replace(old, ""): the occurrences of old, left to right, are removed
RECURSIVE Remove(_, _)
Remove(s, old) ==
  LET found == {k \in 1..(Len(s) - Len(old) + 1) : SubSeq(s, k, k + Len(old) - 1) = old}
      first == CHOOSE k \in found : \A j \in found : k <= j
  IN  IF found = {} THEN s
      ELSE SubSeq(s, 1, first - 1) \o Remove(SubSeq(s, first + Len(old), Len(s)), old)

TranslatedByGoogle == <<"(", "T", "r", "a", "n", "s", "l", "a", "t", "e", "d", " ", "b", "y", " ", "G", "o", "o", "g", "l", "e", ")">>
Original == <<"(", "O", "r", "i", "g", "i", "n", "a", "l", ")">>

\* clean_review_text(text)
clean_review_text(text) ==
  IF text = <<>> THEN <<>>
  ELSE Strip(Remove(Remove(Join(Words(text)), TranslatedByGoogle), Original))

\* review.get("text") or review.get("reviewText") or ""
TextOf(review) ==
  LET text == Get(review, "text", NoText)
      reviewText == Get(review, "reviewText", NoText)
  IN  IF text \notin {NoText, <<>>} THEN text
      ELSE IF reviewText \notin {NoText, <<>>} THEN reviewText
      ELSE <<>>

\* has_only_images(review)
has_only_images(review) ==
  /\ \/ Get(review, "reviewImageUrls", <<>>) # <<>>
     \/ Get(review, "photos", <<>>) # <<>>
  /\ Len(Strip(TextOf(review))) < 3

\* filter_reviews with the has_only_images test (lines 65-68) moved behind the
\* two text tests
filter_reviews_text_first(revs) ==
  LET F[k \in 0..Len(revs)] ==
        IF k = 0 THEN
          [ valid_reviews |-> <<>>,
            stats |-> [total |-> Len(revs), valid |-> 0, no_text |-> 0,
                       only_images |-> 0, too_short |-> 0] ]
        ELSE
          LET prev == F[k - 1]
              review == revs[k]
              text == Strip(TextOf(review))
          IN  IF text = <<>> THEN
                [prev EXCEPT !.stats.no_text = @ + 1]
              ELSE IF Len(text) < 3 THEN
                [prev EXCEPT !.stats.too_short = @ + 1]
              ELSE IF has_only_images(review) THEN
                [prev EXCEPT !.stats.only_images = @ + 1]
              ELSE
                [prev EXCEPT
                   !.valid_reviews = Append(@, Put(review, "text", clean_review_text(text))),
                   !.stats.valid = @ + 1]
  IN  F[Len(revs)]

\* filter_reviews(reviews): the valid reviews, their text cleaned, and the counts
filter_reviews(revs) ==
  LET F[k \in 0..Len(revs)] ==
        IF k = 0 THEN
          [ valid_reviews |-> <<>>,
            stats |-> [total |-> Len(revs), valid |-> 0, no_text |-> 0,
                       only_images |-> 0, too_short |-> 0] ]
        ELSE
          LET prev == F[k - 1]
              review == revs[k]
              text == Strip(TextOf(review))
          IN  IF has_only_images(review) THEN
                [prev EXCEPT !.stats.only_images = @ + 1]
              ELSE IF text = <<>> THEN
                [prev EXCEPT !.stats.no_text = @ + 1]
              ELSE IF Len(text) < 3 THEN
                [prev EXCEPT !.stats.too_short = @ + 1]
              ELSE
                [prev EXCEPT
                   !.valid_reviews = Append(@, Put(review, "text", clean_review_text(text))),
                   !.stats.valid = @ + 1]
  IN  F[Len(revs)]

\* the caller's list after filter_reviews(reviews): line 83 assigns the
\* cleaned text to the dict it was given
filter_reviews_effect(revs) ==
  [ k \in 1..Len(revs) |->
      LET review == revs[k]
          text == Strip(TextOf(review))
      IN  IF has_only_images(review) \/ Len(text) < 3 THEN review
          ELSE Put(review, "text", clean_review_text(text)) ]

\* ------------------------------------------------------------------------
\* ReviewScraper: the fingerprint index and its cache file
\* ------------------------------------------------------------------------
\* a text of more than 50 characters, ending in c
Long(c) == [i \in 1..51 |-> IF i = 51 THEN c ELSE "x"]

\* the reviews the Apify dataset delivers in the model: a review without a
\* text key, two reviews that differ after character 50 only, and a
\* rating-only review (text null)
ScrapedReviews ==
  { [reviewerId |-> "u2", publishedAtDate |-> "d1"],
    [reviewerId |-> "u1", publishedAtDate |-> "d1", text |-> Long("a")],
    [reviewerId |-> "u1", publishedAtDate |-> "d1", text |-> Long("b")],
    [reviewerId |-> "u2", publishedAtDate |-> "d1", text |-> NoText] }

Places == {"p1", "p2"}
Instances == 1..MaxInstances

\* text[:50]
Prefix(text) == Take(text, 50)

\* the non-empty strings that hash() is applied to
HashedPrefixes ==
  {Prefix(review.text) : review \in {r \in ScrapedReviews : "text" \in DOMAIN r /\ r.text # NoText}}
    \ {<<>>}

\* the str hash functions of a process: the hash of a str depends on the hash
\* seed of the process (PYTHONHASHSEED, random by default); hash("") is 0
HashFunctions == [HashedPrefixes -> 0..MaxHash]

\* hash(s) in a process whose str hash is h
Hash(h, s) == IF s = <<>> THEN 0 ELSE h[s]

\* _get_review_id(review) in a process whose str hash is h
\* (None[:50] is a TypeError)
_get_review_id(review, h) ==
  LET reviewer_id  == Get(review, "reviewerId", "")
      published_at == Get(review, "publishedAtDate", "")
      text         == Get(review, "text", <<>>)
  IN  IF text = NoText
        THEN Exc("TypeError", "'NoneType' object is not subscriptable")
        ELSE [fp |-> reviewer_id \o "_" \o published_at \o "_" \o ToString(Hash(h, Prefix(text)))]

\* _get_review_id of the reviews of the model, per str hash
ReviewIds == [h \in HashFunctions |-> [review \in ScrapedReviews |-> _get_review_id(review, h)]]

\* d emptied when it has the key k
Del_every(d, k) == IF k \in DOMAIN d THEN <<>> ELSE d

\* the dict without key k
Del(d, k) == [x \in DOMAIN d \ {k} |-> d[x]]

\* _filter_new_reviews with line 56-57 replaced by an unconditional
\* self.scraped_review_ids[place_id] = set()
_filter_new_reviews_fresh_set(revs, place_id, ids, h) ==
  LET ids0 == Put(ids, place_id, {})
      F[k \in 0..Len(revs)] ==
        IF k = 0 THEN [raised |-> None, new_reviews |-> <<>>, ids |-> ids0]
        ELSE
          LET prev == F[k - 1]
              review_id == ReviewIds[h][revs[k]]
          IN  IF ~IsNone(prev.raised) THEN prev
              ELSE IF IsException(review_id) THEN [prev EXCEPT !.raised = Some(review_id)]
              ELSE IF review_id.fp \notin prev.ids[place_id] THEN
                [prev EXCEPT !.new_reviews = Append(@, revs[k]),
                             !.ids = Put(@, place_id, @[place_id] \cup {review_id.fp})]
              ELSE prev
  IN  F[Len(revs)]

\* _filter_new_reviews(reviews, place_id) on the index ids: [raised,
\* new_reviews, ids]; the set of place_id is updated in place, so what was
\* added before an exception stays
_filter_new_reviews(revs, place_id, ids, h) ==
  LET ids0 == IF place_id \in DOMAIN ids THEN ids ELSE Put(ids, place_id, {})
      F[k \in 0..Len(revs)] ==
        IF k = 0 THEN [raised |-> None, new_reviews |-> <<>>, ids |-> ids0]
        ELSE
          LET prev == F[k - 1]
              review_id == ReviewIds[h][revs[k]]
          IN  IF ~IsNone(prev.raised) THEN prev
              ELSE IF IsException(review_id) THEN [prev EXCEPT !.raised = Some(review_id)]
              ELSE IF review_id.fp \notin prev.ids[place_id] THEN
                [prev EXCEPT !.new_reviews = Append(@, revs[k]),
                             !.ids = Put(@, place_id, @[place_id] \cup {review_id.fp})]
              ELSE prev
  IN  F[Len(revs)]

\* the cache file: missing (None), or its content, JSON of a dict or not
JsonFile(data) == [json |-> TRUE, data |-> data]
BrokenFile == [json |-> FALSE, data |-> <<>>]

\* _load_cache(): the dict of the file; {} if it is missing or unreadable
_load_cache(file) ==
  IF IsNone(file) THEN <<>>
  ELSE IF file[1].json THEN file[1].data
  ELSE <<>>

\* _save_cache(): the file after it; how says whether the file is written
\* or the write fails after open(..., 'w') has truncated the file; no
\* exception leaves _save_cache
SaveOutcomes == {"written", "truncated"}
_save_cache(file, ids, how) ==
  IF how = "written" THEN Some(JsonFile(ids)) ELSE Some(BrokenFile)

VARIABLES
  cache_file,           \* scraped_reviews.json
  str_hash,             \* the str hash of the running process
  scraped_review_ids,   \* per ReviewScraper instance: its index, if it exists
  scraper_pc,           \* "idle", or "returned" while the caller holds the result
  scraper_returned,     \* what the last ReviewScraper call returned
  scrapes,              \* scrape_location calls so far
  resets,               \* reset calls so far
  restarts,             \* restarts of the process so far
  filter_call,          \* history: the last _filter_new_reviews call, if the
                        \*          last operation made one
  own,                  \* history: per instance and place_id, the reviews it has
                        \*          passed through _filter_new_reviews since a reset
  recorded,             \* history: per instance and place_id, the reviews whose
                        \*          fingerprints were put in its index, by itself
                        \*          or by the instance that wrote the file it loaded
  file_recorded         \* history: per place_id, the reviews whose fingerprints
                        \*          were written to the cache file

scraperVars ==
  << cache_file, str_hash, scraped_review_ids, scraper_pc, scraper_returned, scrapes, resets,
     restarts,
     filter_call,
     own, recorded, file_recorded >>

\* ------------------------------------------------------------------------
\* State of the batch endpoint
\* ------------------------------------------------------------------------
VARIABLES
  sentiment_analysis,   \* the table of DatabaseManager
  now,                  \* CURRENT_TIMESTAMP of the database
  client,               \* SentimentAnalyzer.client is set (GITHUB_TOKEN given)
  is_google,            \* the is_google query parameter of the requests
  pc,                   \* where the smart_batch_analyze request stands
  submitted,            \* reviews submitted so far (an empty request counts as one)
  reviews, parallel, force_reanalyze,                \* the request
  reviews_to_analyze, results, skipped, errors,      \* locals of the handler
  completed,            \* parallel: what asyncio.gather has collected so far
  pos,                  \* sequential: index of the review being analysed
  response,             \* what the handler returned
  origin,               \* history: input position of each reviews_to_analyze entry
  item_state,           \* history: state of each input review of the request
  item_trace,           \* history: per input review, how its engine call and its
                        \*          save_analysis call ended
  engine_calls,         \* history: input positions the engine was invoked for
  store_ok,             \* history: the store answered every call of the request
  lookup_ok,            \* history: per input review, the store answered its lookups
  analysed              \* history: per id, the text and path of its latest analysis
                        \*          made while the store was reachable

storeVars   == << sentiment_analysis, now >>
configVars  == << client, is_google >>
requestVars == << reviews, parallel, force_reanalyze >>
localVars   == << reviews_to_analyze, results, skipped, errors, completed, pos >>
checkVars   == << origin, lookup_ok >>
batchVars ==
  << storeVars, configVars, requestVars, localVars, checkVars, pc, submitted,
     response, item_state, item_trace, engine_calls, store_ok, analysed >>

\* ------------------------------------------------------------------------
\* State of a caller of the static functions of ReviewCleaner and of
\* GitHubModelsSentimentAnalyzer
\* ------------------------------------------------------------------------
VARIABLES
  fn_call,              \* the call in hand: the function and its arguments, as the
                        \* caller holds them now
  fn_given,             \* history: the arguments before the first call
  fn_return             \* what the calls made so far returned, in order

pureVars == << fn_call, fn_given, fn_return >>

\* ------------------------------------------------------------------------
\* State of the scraper API (Scraper.py)
\* ------------------------------------------------------------------------
VARIABLES
  jobs_storage,         \* the dict of the jobs of /api/scrape-async, by job_id
  job_task,             \* per job_id: where its background task stands, the
                        \* request it was given and its locals result and e
  http_response,        \* what the last request to the API was answered with
  pipeline_outcome      \* history: what process_location returned or raised in
                        \*          the /api/scrape request that http_response
                        \*          answers, if it answers one

jobVars == << jobs_storage, job_task, http_response, pipeline_outcome >>

\* ------------------------------------------------------------------------
\* Requests of the model
\* ------------------------------------------------------------------------
ReviewInputs ==
  { [ id |-> "R1", full_review |-> Bagus, rating |-> Some(5),
      reviewer_name |-> Some("Ann"),
      review_date |-> Some(IsoDate("2024-01-01 10:00:00", "Z")) ],
    [ id |-> "R1", full_review |-> Buruk, rating |-> Some(1),
      review_date |-> Some(BadDate("kemarin")) ],
    [ id |-> "R2", full_review |-> <<>>, rating |-> Some(4) ],
    [ full_review |-> Bagus,
      review_date |-> Some(IsoDate("2024-01-01 10:00:00", "+07:00")) ],
    [ id |-> "R2", full_review |-> Buruk, rating |-> None ] }

RECURSIVE SeqsUpTo(_, _)
SeqsUpTo(S, n) ==
  IF n = 0 THEN {<<>>}
  ELSE LET shorter == SeqsUpTo(S, n - 1)
       IN  shorter \cup {Append(q, x) : q \in {r \in shorter : Len(r) = n - 1}, x \in S}

Batches == SeqsUpTo(ReviewInputs, MaxBatch)

\* f"REV{idx+1:03d}"
RevId(idx) == <<"REV001", "REV002", "REV003", "REV004", "REV005">>[idx + 1]

\* ------------------------------------------------------------------------
\* Sentiment.smart_batch_analyze
\* ------------------------------------------------------------------------
\* CheckLoop without the continue of line 154: a cache hit is also queued
\* for analysis
CheckLoop_no_continue(batch, force, rows, conn) ==
  LET F[i \in 0..Len(batch)] ==
        IF i = 0 THEN
          [ results |-> <<>>, skipped |-> <<>>, todo |-> <<>>, origin |-> <<>>,
            state |-> <<>>, ok |-> TRUE, looked |-> <<>> ]
        ELSE
          LET prev        == F[i - 1]
              rev         == batch[i]
              review_id   == Get(rev, "id", RevId(i - 1))
              review_text == Get(rev, "full_review", <<>>)
              analyzed    == is_analyzed(review_id, review_text, conn[i][1], rows)
              existing    == get_analysis(review_id, conn[i][2], rows)
              \* the lookups answered as a reachable store answers
              faithful    == /\ analyzed = is_analyzed(review_id, review_text, TRUE, rows)
                             /\ analyzed => ~IsNone(existing)
          IN  IF review_text = <<>> THEN
                [prev EXCEPT !.state  = Append(@, "discarded"),
                             !.looked = Append(@, TRUE)]
              ELSE IF ~force /\ analyzed /\ ~IsNone(existing) THEN
                [prev EXCEPT
                   !.results = Append(@, Put(existing[1], "from_cache", TRUE)),
                   !.skipped = Append(@, [id |-> review_id, reason |-> "already_analyzed"]),
                   !.state   = Append(@, "cache_hit"),
                   !.todo    = Append(@, [ review        |-> review_text,
                                           rating        |-> Get(rev, "rating", Some(3)),
                                           id            |-> review_id,
                                           reviewer_name |-> Get(rev, "reviewer_name", None),
                                           review_at     |-> Get(rev, "review_date", None) ]),
                   !.origin  = Append(@, i),
                   !.looked  = Append(@, TRUE) ]
              ELSE
                [prev EXCEPT
                   !.todo   = Append(@, [ review        |-> review_text,
                                          rating        |-> Get(rev, "rating", Some(3)),
                                          id            |-> review_id,
                                          reviewer_name |-> Get(rev, "reviewer_name", None),
                                          review_at     |-> Get(rev, "review_date", None) ]),
                   !.origin = Append(@, i),
                   !.state  = Append(@, "needs_analysis"),
                   !.looked = Append(@, force \/ faithful),
                   !.ok     = @ /\ (force \/ faithful) ]
  IN  F[Len(batch)]

\* lines 138-162: which reviews need analysis.  conn[i] = <<a, g>>: whether the
\* connection of is_analyzed and of the following get_analysis is obtained.
CheckLoop(batch, force, rows, conn) ==
  LET F[i \in 0..Len(batch)] ==
        IF i = 0 THEN
          [ results |-> <<>>, skipped |-> <<>>, todo |-> <<>>, origin |-> <<>>,
            state |-> <<>>, ok |-> TRUE, looked |-> <<>> ]
        ELSE
          LET prev        == F[i - 1]
              rev         == batch[i]
              review_id   == Get(rev, "id", RevId(i - 1))
              review_text == Get(rev, "full_review", <<>>)
              analyzed    == is_analyzed(review_id, review_text, conn[i][1], rows)
              existing    == get_analysis(review_id, conn[i][2], rows)
              \* the lookups answered as a reachable store answers
              faithful    == /\ analyzed = is_analyzed(review_id, review_text, TRUE, rows)
                             /\ analyzed => ~IsNone(existing)
          IN  IF review_text = <<>> THEN
                [prev EXCEPT !.state  = Append(@, "discarded"),
                             !.looked = Append(@, TRUE)]
              ELSE IF ~force /\ analyzed /\ ~IsNone(existing) THEN
                [prev EXCEPT
                   !.results = Append(@, Put(existing[1], "from_cache", TRUE)),
                   !.skipped = Append(@, [id |-> review_id, reason |-> "already_analyzed"]),
                   !.state   = Append(@, "cache_hit"),
                   !.looked  = Append(@, TRUE) ]
              ELSE
                [prev EXCEPT
                   !.todo   = Append(@, [ review        |-> review_text,
                                          rating        |-> Get(rev, "rating", Some(3)),
                                          id            |-> review_id,
                                          reviewer_name |-> Get(rev, "reviewer_name", None),
                                          review_at     |-> Get(rev, "review_date", None) ]),
                   !.origin = Append(@, i),
                   !.state  = Append(@, "needs_analysis"),
                   !.looked = Append(@, force \/ faithful),
                   !.ok     = @ /\ (force \/ faithful) ]
  IN  F[Len(batch)]

\* lines 213-224
Outcome(revs, res, todo, skip, errs) ==
  [ success        |-> TRUE,
    total_reviews  |-> Len(revs),
    processed      |-> Len(res),
    newly_analyzed |-> Len(todo),
    from_cache     |-> Len(skip),
    failed         |-> Len(errs),
    results        |-> res,
    skipped        |-> skip,
    errors         |-> errs ]

\* line 131 and line 226
Failure(m) == [success |-> FALSE, error |-> m]

\* the engine call of one reviews_to_analyze entry
Analyze(rev, google, has_client, remote) ==
  analyze_with_github(rev.review, rev.rating, rev.id, rev.reviewer_name,
                      rev.review_at, google, has_client, remote)

\* what the remote client does in the calls of a batch request: a call error,
\* an answer without a required field, a complete answer (it is not called
\* without a client)
BatchRemotes ==
  { RemoteRaise("timeout") } \cup { RemoteText(Some(d)) : d \in ModelOutputs }
Remotes == IF client THEN BatchRemotes ELSE {RemoteRaise("")}

\* how an engine call ended: the source of its result, or "raised"
EngineKind(result) == IF IsException(result) THEN "raised" ELSE result.source
\* how a save_analysis call ended
SaveKind(saved) ==
  IF ~IsNone(saved.raised) THEN "raised" ELSE IF saved.value THEN "saved" ELSE "not_saved"

\* lines 183-191: the loop over the gathered results.  conn[k]: whether
\* save_analysis of entry k gets a connection.  A KeyError of save_analysis
\* leaves the loop (raised) and reaches the except of line 225.
GatherLoop(done, res0, rows0, state0, trace0, org, conn, t) ==
  LET F[k \in 0..Len(done)] ==
        IF k = 0 THEN
          [ results |-> res0, errors |-> <<>>, rows |-> rows0, state |-> state0,
            trace |-> trace0, raised |-> None, ok |-> TRUE ]
        ELSE
          LET prev   == F[k - 1]
              result == done[k][1]
              saved  == save_analysis(result, conn[k], prev.rows, t)
          IN  IF ~IsNone(prev.raised) THEN prev
              ELSE IF IsException(result) THEN
                [prev EXCEPT
                   !.errors = Append(@, [index |-> k - 1, error |-> result.msg]),
                   !.state  = [@ EXCEPT ![org[k]] = "analyzed_error"] ]
              ELSE IF ~IsNone(saved.raised) THEN
                [prev EXCEPT
                   !.raised = saved.raised,
                   !.trace  = [@ EXCEPT ![org[k]].save = "raised"] ]
              ELSE
                [prev EXCEPT
                   !.results = Append(@, Put(Put(result, "saved_to_db", saved.value),
                                             "from_cache", FALSE)),
                   !.rows    = saved.rows,
                   !.state   = [@ EXCEPT ![org[k]] = "analyzed_success"],
                   !.trace   = [@ EXCEPT ![org[k]].save = SaveKind(saved)],
                   !.ok      = @ /\ conn[k] ]
  IN  F[Len(done)]

\* analysed after the engine returned result while the store was reachable
Analysed(history, result) ==
  {h \in history : h.id # result.id}
    \cup {[id |-> result.id, text |-> result.review_text, via |-> result.source]}

\* analysed after gather collected done; conn[k]: the store is reachable for entry k
AnalysedAll(history, done, conn) ==
  LET F[k \in 0..Len(done)] ==
        IF k = 0 THEN history
        ELSE IF ~IsException(done[k][1]) /\ conn[k] THEN Analysed(F[k - 1], done[k][1])
        ELSE F[k - 1]
  IN  F[Len(done)]

\* the handler returns resp; its locals are gone
Return(resp) ==
  /\ response' = resp
  /\ pc' = "returned"
  /\ reviews_to_analyze' = <<>>
  /\ results' = <<>>
  /\ skipped' = <<>>
  /\ errors' = <<>>
  /\ completed' = <<>>
  /\ pos' = 1

\* the handler goes on to newpc with these locals
Proceed(newpc, todo, res, skip, errs, done, p) ==
  /\ pc' = newpc
  /\ reviews_to_analyze' = todo
  /\ results' = res
  /\ skipped' = skip
  /\ errors' = errs
  /\ completed' = done
  /\ pos' = p
  /\ UNCHANGED response

\* lines 123-162: the request arrives and the cache check runs
StartBatch ==
  /\ pc = "idle"
  /\ \E batch \in Batches, par \in BOOLEAN, force \in BOOLEAN :
       \E conn \in [1..Len(batch) -> BOOLEAN \X BOOLEAN] :
         LET c == CheckLoop(batch, force, sentiment_analysis, conn)
         IN  /\ submitted + Max(1, Len(batch)) <= MaxReviews
             /\ submitted' = submitted + Max(1, Len(batch))
             /\ reviews' = batch
             /\ parallel' = par
             /\ force_reanalyze' = force
             /\ origin' = c.origin
             /\ item_state' = c.state
             /\ item_trace' = [i \in 1..Len(batch) |-> [engine |-> "none", save |-> "none"]]
             /\ store_ok' = c.ok
             /\ lookup_ok' = c.looked
             /\ IF batch = <<>>
                  THEN Return(Failure("reviews array required"))
                  ELSE Proceed("checked", c.todo, c.results, c.skipped, <<>>, <<>>, 1)
  /\ UNCHANGED << storeVars, configVars, engine_calls, analysed >>
  /\ UNCHANGED << scraperVars, pureVars, jobVars >>

\* lines 167-181 and 192-193: nothing to analyse, or the engine calls of
\* parallel mode are all issued, or the sequential loop begins
Dispatch ==
  /\ pc = "checked"
  /\ IF reviews_to_analyze = <<>> THEN
       /\ Return(Outcome(reviews, results, reviews_to_analyze, skipped, errors))
       /\ UNCHANGED engine_calls
     ELSE IF parallel THEN
       /\ Proceed("gather", reviews_to_analyze, results, skipped, errors,
                  [k \in 1..Len(reviews_to_analyze) |-> None], 1)
       /\ engine_calls' = origin
     ELSE
       /\ Proceed("seq", reviews_to_analyze, results, skipped, errors, completed, 1)
       /\ UNCHANGED engine_calls
  /\ UNCHANGED << storeVars, configVars, requestVars, checkVars, submitted,
                  item_state, item_trace, store_ok, analysed >>
  /\ UNCHANGED << scraperVars, pureVars, jobVars >>

\* parallel mode: one of the gathered engine calls finishes, in any order
TaskComplete ==
  /\ pc = "gather"
  /\ \E k \in DOMAIN completed, remote \in Remotes :
       /\ IsNone(completed[k])
       /\ completed' = [completed EXCEPT
            ![k] = Some(Analyze(reviews_to_analyze[k], is_google, client, remote))]
  /\ UNCHANGED << storeVars, configVars, requestVars, checkVars, pc, submitted,
                  reviews_to_analyze, results, skipped, errors, pos, response,
                  item_state, item_trace, engine_calls, store_ok, analysed >>
  /\ UNCHANGED << scraperVars, pureVars, jobVars >>

\* parallel mode: gather returns; lines 183-191 and the return (or line 226)
GatherDone ==
  /\ pc = "gather"
  /\ \A k \in DOMAIN completed : ~IsNone(completed[k])
  /\ \E conn \in [DOMAIN completed -> BOOLEAN] :
       LET engines == [i \in DOMAIN item_trace |->
                         IF InSeq(i, origin)
                           THEN [ engine |-> EngineKind(
                                      completed[CHOOSE k \in DOMAIN origin : origin[k] = i][1]),
                                  save |-> "none" ]
                           ELSE item_trace[i]]
           g == GatherLoop(completed, results, sentiment_analysis, item_state,
                           engines, origin, conn, now)
       IN  /\ sentiment_analysis' = g.rows
           /\ item_state' = g.state
           /\ item_trace' = g.trace
           /\ store_ok' = (store_ok /\ g.ok)
           /\ analysed' = AnalysedAll(analysed, completed, conn)
           /\ IF IsNone(g.raised)
                THEN Return(Outcome(reviews, g.results, reviews_to_analyze, skipped, g.errors))
                ELSE Return(Failure(g.raised[1].msg))
  /\ UNCHANGED << now, configVars, requestVars, checkVars, submitted, engine_calls >>
  /\ UNCHANGED << scraperVars, pureVars, jobVars >>

\* sequential mode with the engine call of the next review started together
\* with the one of this review
SeqCall_two_at_once ==
  /\ pc = "seq"
  /\ pc' = "seq_wait"
  /\ engine_calls' = engine_calls \o SubSeq(origin, pos, Min(pos + 1, Len(origin)))
  /\ UNCHANGED << storeVars, configVars, requestVars, localVars, checkVars,
                  submitted, response, item_state, item_trace, store_ok, analysed >>
  /\ UNCHANGED << scraperVars, pureVars, jobVars >>

\* sequential mode: the engine is called for the review at pos (line 195)
SeqCall ==
  /\ pc = "seq"
  /\ pc' = "seq_wait"
  /\ engine_calls' = Append(engine_calls, origin[pos])
  /\ UNCHANGED << storeVars, configVars, requestVars, localVars, checkVars,
                  submitted, response, item_state, item_trace, store_ok, analysed >>
  /\ UNCHANGED << scraperVars, pureVars, jobVars >>

\* sequential mode: the engine call returns or raises; lines 203-209; then the
\* next review, or the return after the last one
SeqResume ==
  /\ pc = "seq_wait"
  /\ \E remote \in Remotes, conn \in BOOLEAN :
       LET rev    == reviews_to_analyze[pos]
           result == Analyze(rev, is_google, client, remote)
           saved  == save_analysis(result, conn, sentiment_analysis, now)
           failed == IsException(result) \/ ~IsNone(saved.raised)
           msg    == IF IsException(result) THEN result.msg ELSE saved.raised[1].msg
           res    == IF failed THEN results
                     ELSE Append(results, Put(Put(result, "saved_to_db", saved.value),
                                              "from_cache", FALSE))
           errs   == IF failed THEN Append(errors, [id |-> rev.id, error |-> msg])
                     ELSE errors
       IN  /\ sentiment_analysis' = (IF failed THEN sentiment_analysis ELSE saved.rows)
           /\ item_state' = [item_state EXCEPT
                ![origin[pos]] = IF failed THEN "analyzed_error" ELSE "analyzed_success"]
           /\ item_trace' = [item_trace EXCEPT
                ![origin[pos]] = [ engine |-> EngineKind(result),
                                   save   |-> IF IsException(result) THEN "none"
                                              ELSE SaveKind(saved) ]]
           /\ store_ok' = (store_ok /\ (IsException(result) \/ conn))
           /\ analysed' = (IF ~IsException(result) /\ conn
                             THEN Analysed(analysed, result) ELSE analysed)
           /\ IF pos = Len(reviews_to_analyze)
                THEN Return(Outcome(reviews, res, reviews_to_analyze, skipped, errs))
                ELSE Proceed("seq", reviews_to_analyze, res, skipped, errs, completed, pos + 1)
  /\ UNCHANGED << now, configVars, requestVars, checkVars, submitted, engine_calls >>
  /\ UNCHANGED << scraperVars, pureVars, jobVars >>

\* DatabaseManager.get_testimoni(limit=limit), line 244: the class defines
\* get_connection, init_database, parse_datetime_for_mysql, save_analysis,
\* get_analysis, is_analyzed, get_all_analyses and get_statistics, so the
\* attribute lookup raises
get_testimoni(limit) ==
  Exc("AttributeError", "type object 'DatabaseManager' has no attribute 'get_testimoni'")

\* the limit query parameter of the requests of the model (default 5)
AutoLimits == {1, 5}

\* POST /api/smart-batch-analyze-auto, lines 229-320: the whole handler runs
\* in one try; line 244 raises, the except of line 319 returns the failure.
\* Lines 245-317 (the cache check, the gather and the saves) come after the
\* call and are not reached.
SmartBatchAnalyzeAuto ==
  /\ pc = "idle"
  /\ submitted < MaxReviews
  /\ submitted' = submitted + 1
  /\ \E limit \in AutoLimits :
       LET fetched == get_testimoni(limit)
       IN  /\ IsException(fetched)
           /\ Return(Failure(fetched.msg))
  /\ UNCHANGED << storeVars, configVars, requestVars, checkVars,
                  item_state, item_trace, engine_calls, store_ok, analysed >>
  /\ UNCHANGED << scraperVars, pureVars, jobVars >>

\* the response is delivered; the next request arrives at a later time
Deliver ==
  /\ pc = "returned"
  /\ pc' = "idle"
  /\ now' = now + 1
  /\ response' = Failure("")
  /\ reviews' = <<>>
  /\ parallel' = TRUE
  /\ force_reanalyze' = FALSE
  /\ origin' = <<>>
  /\ lookup_ok' = <<>>
  /\ item_state' = <<>>
  /\ item_trace' = <<>>
  /\ engine_calls' = <<>>
  /\ store_ok' = TRUE
  /\ UNCHANGED << sentiment_analysis, configVars, localVars, submitted, analysed >>
  /\ UNCHANGED << scraperVars, pureVars, jobVars >>

\* no request has been made
BatchIdle ==
  /\ sentiment_analysis = {}
  /\ now = 0
  /\ pc = "idle"
  /\ submitted = 0
  /\ reviews = <<>>
  /\ parallel = TRUE
  /\ force_reanalyze = FALSE
  /\ reviews_to_analyze = <<>>
  /\ results = <<>>
  /\ skipped = <<>>
  /\ errors = <<>>
  /\ completed = <<>>
  /\ pos = 1
  /\ response = Failure("")
  /\ origin = <<>>
  /\ lookup_ok = <<>>
  /\ item_state = <<>>
  /\ item_trace = <<>>
  /\ engine_calls = <<>>
  /\ store_ok = TRUE
  /\ analysed = {}

\* no ReviewScraper has been created and there is no cache file
ScraperIdle ==
  /\ cache_file = None
  /\ scraped_review_ids = [i \in Instances |-> None]
  /\ scraper_pc = "idle"
  /\ scraper_returned = None
  /\ scrapes = 0
  /\ resets = 0
  /\ restarts = 0
  /\ filter_call = None
  /\ own = [i \in Instances |-> <<>>]
  /\ recorded = [i \in Instances |-> <<>>]
  /\ file_recorded = <<>>

\* no request has been made to the scraper API
JobsIdle ==
  /\ jobs_storage = <<>>
  /\ job_task = <<>>
  /\ http_response = None
  /\ pipeline_outcome = None

\* no static function is being called
PureIdle ==
  /\ fn_call = [fn |-> "none", args |-> <<>>]
  /\ fn_given = <<>>
  /\ fn_return = <<>>

Init ==
  /\ client \in BOOLEAN
  /\ is_google \in BOOLEAN
  /\ BatchIdle
  /\ str_hash = [s \in HashedPrefixes |-> 0]
  /\ ScraperIdle
  /\ JobsIdle
  /\ PureIdle

Next ==
  \/ StartBatch
  \/ Dispatch
  \/ TaskComplete
  \/ GatherDone
  \/ SeqCall
  \/ SeqResume
  \/ SmartBatchAnalyzeAuto
  \/ Deliver

vars == << batchVars, scraperVars, pureVars, jobVars >>

Spec == Init /\ [][Next]_vars

\* ------------------------------------------------------------------------
\* ReviewScraper: the operations of its instances
\* ------------------------------------------------------------------------
\* the index of instance i
IndexOf(i) == scraped_review_ids[i][1]

\* m with revs added under place
AddAll(m, place, revs) == Put(m, place, Get(m, place, {}) \cup revs)

\* the reviews that _filter_new_reviews fingerprints: all of them, or those
\* before the first one on which _get_review_id raises
Fingerprinted(revs, h) ==
  LET bad == {k \in 1..Len(revs) : IsException(ReviewIds[h][revs[k]])}
  IN  {revs[k] : k \in {j \in 1..Len(revs) : \A b \in bad : j < b}}

\* what the Apify actor delivers: the call raises, the dataset is empty, or
\* its first item is a location with a placeId (or none) and reviews
NoPlace == "None"
ApifyOutcomes ==
  { [kind |-> "raise"], [kind |-> "empty"] }
    \cup { [kind |-> "data", placeId |-> p, reviews |-> revs] :
             p \in Places \cup {NoPlace}, revs \in SeqsUpTo(ScrapedReviews, MaxBatch) }

\* ReviewCleaner.filter_reviews of the review lists of the model
Cleaned == [revs \in SeqsUpTo(ScrapedReviews, MaxBatch) |-> filter_reviews(revs)]

\* the file and its history after _save_cache of instance i's index
Saved(how, ids, rec) ==
  /\ cache_file' = _save_cache(cache_file, ids, how)
  /\ file_recorded' = (IF how = "written" THEN rec ELSE <<>>)

\* ReviewScraper(...): lines 14-20
NewScraper(i) ==
  /\ scraper_pc = "idle"
  /\ IsNone(scraped_review_ids[i])
  /\ \A j \in 1..(i - 1) : ~IsNone(scraped_review_ids[j])
  /\ scraped_review_ids' = [scraped_review_ids EXCEPT ![i] = Some(_load_cache(cache_file))]
  /\ own' = [own EXCEPT ![i] = <<>>]
  /\ recorded' = [recorded EXCEPT ![i] = file_recorded]
  /\ UNCHANGED << cache_file, str_hash, scraper_pc, scraper_returned, scrapes, resets,
     restarts,
                  filter_call, file_recorded, batchVars, pureVars, jobVars >>

\* scrape_location(...) of instance i: lines 102-152
ScrapeLocation(i) ==
  /\ scraper_pc = "idle"
  /\ scraper_pc' = "returned"
  /\ scrapes < MaxScrapes
  /\ ~IsNone(scraped_review_ids[i])
  /\ scrapes' = scrapes + 1
  /\ \E apify \in ApifyOutcomes, skip_duplicates \in BOOLEAN, how \in SaveOutcomes :
       IF apify.kind # "data" THEN
         /\ scraper_returned' =
              Some(Failure(IF apify.kind = "raise" THEN "actor call failed" ELSE "No data found"))
         /\ filter_call' = None
         /\ UNCHANGED << cache_file, scraped_review_ids, own, recorded, file_recorded >>
       ELSE IF skip_duplicates /\ apify.placeId # NoPlace THEN
         LET place_id == apify.placeId
             f    == _filter_new_reviews(apify.reviews, place_id, IndexOf(i), str_hash)
             seen == Fingerprinted(apify.reviews, str_hash)
             rec  == AddAll(recorded[i], place_id, seen)
         IN  /\ scraped_review_ids' = [scraped_review_ids EXCEPT ![i] = Some(f.ids)]
             /\ own' = [own EXCEPT ![i] = AddAll(@, place_id, seen)]
             /\ recorded' = [recorded EXCEPT ![i] = rec]
             /\ filter_call' =
                  Some([ inst |-> i, place_id |-> place_id, reviews |-> apify.reviews,
                         before |-> Get(IndexOf(i), place_id, {}),
                         own_before |-> Get(own[i], place_id, {}),
                         recorded_before |-> Get(recorded[i], place_id, {}),
                         raised |-> f.raised, new_reviews |-> f.new_reviews ])
             /\ IF ~IsNone(f.raised) THEN
                  /\ scraper_returned' = Some(Failure(f.raised[1].msg))
                  /\ UNCHANGED << cache_file, file_recorded >>
                ELSE
                  /\ Saved(how, f.ids, rec)
                  /\ scraper_returned' =
                       Some([ success |-> TRUE,
                              place_id |-> place_id,
                              reviews |-> Cleaned[f.new_reviews].valid_reviews,
                              cleaning_stats |-> Cleaned[f.new_reviews].stats,
                              scraping_stats |->
                                [ raw_reviews_fetched |-> Len(apify.reviews),
                                  duplicates_filtered |-> Len(apify.reviews) - Len(f.new_reviews),
                                  new_reviews_found |-> Len(f.new_reviews),
                                  total_scraped_for_location |-> Cardinality(f.ids[place_id]) ] ])
       ELSE
         /\ scraper_returned' =
              Some([ success |-> TRUE,
                     place_id |-> apify.placeId,
                     reviews |-> Cleaned[apify.reviews].valid_reviews,
                     cleaning_stats |-> Cleaned[apify.reviews].stats,
                     scraping_stats |->
                       [ raw_reviews_fetched |-> Len(apify.reviews),
                         duplicates_filtered |-> 0,
                         new_reviews_found |-> Len(apify.reviews),
                         total_scraped_for_location |->
                           Cardinality(Get(IndexOf(i), apify.placeId, {})) ] ])
         /\ filter_call' = None
         /\ UNCHANGED << cache_file, scraped_review_ids, own, recorded, file_recorded >>
  /\ UNCHANGED << str_hash, resets, restarts, batchVars, pureVars, jobVars >>

\* reset_cache_for_location(place_id) of instance i: lines 154-160
ResetCacheForLocation(i) ==
  /\ scraper_pc = "idle"
  /\ scraper_pc' = "returned"
  /\ resets < MaxResets
  /\ ~IsNone(scraped_review_ids[i])
  /\ resets' = resets + 1
  /\ \E place_id \in Places, how \in SaveOutcomes :
       IF place_id \in DOMAIN IndexOf(i) THEN
         /\ scraped_review_ids' = [scraped_review_ids EXCEPT ![i] = Some(Del(IndexOf(i), place_id))]
         /\ own' = [own EXCEPT ![i] = Del(@, place_id)]
         /\ recorded' = [recorded EXCEPT ![i] = Del(@, place_id)]
         /\ Saved(how, Del(IndexOf(i), place_id), Del(recorded[i], place_id))
         /\ scraper_returned' = Some(TRUE)
       ELSE
         /\ scraper_returned' = Some(FALSE)
         /\ UNCHANGED << cache_file, scraped_review_ids, own, recorded, file_recorded >>
  /\ filter_call' = None
  /\ UNCHANGED << str_hash, scrapes, restarts, batchVars, pureVars, jobVars >>

\* reset_all_cache() of instance i: lines 162-165
ResetAllCache(i) ==
  /\ scraper_pc = "idle"
  /\ scraper_pc' = "returned"
  /\ resets < MaxResets
  /\ ~IsNone(scraped_review_ids[i])
  /\ resets' = resets + 1
  /\ \E how \in SaveOutcomes :
       /\ scraped_review_ids' = [scraped_review_ids EXCEPT ![i] = Some(<<>>)]
       /\ own' = [own EXCEPT ![i] = <<>>]
       /\ recorded' = [recorded EXCEPT ![i] = <<>>]
       /\ Saved(how, <<>>, <<>>)
  /\ scraper_returned' = None
  /\ filter_call' = None
  /\ UNCHANGED << str_hash, scrapes, restarts, batchVars, pureVars, jobVars >>

\* the process ends and the service is started again: the instances are
\* gone, the file stays, the new process has its own str hash
Restart ==
  /\ scraper_pc = "idle"
  /\ restarts < MaxRestarts
  /\ \E i \in Instances : ~IsNone(scraped_review_ids[i])
  /\ restarts' = restarts + 1
  /\ str_hash' \in HashFunctions
  /\ scraped_review_ids' = [i \in Instances |-> None]
  /\ own' = [i \in Instances |-> <<>>]
  /\ recorded' = [i \in Instances |-> <<>>]
  /\ UNCHANGED << cache_file, scraper_pc, scraper_returned, scrapes, resets, filter_call,
                  file_recorded, batchVars, pureVars, jobVars >>

\* the call that has returned is a reset_cache_for_location that returned b
\* (a scrape returns a dict, which has no equality with a bool)
ResetHasReturned(b) ==
  /\ scraper_pc = "returned"
  /\ scraper_returned # None
  /\ ToString(scraper_returned[1]) = ToString(b)

\* what analyze_batch_reviews returns (SentimentConnector.py:29-50): the
\* answer of the backend, or success False with str(e) when the request
\* raises or the status is an error
AnalysisOutcomes ==
  { [success |-> TRUE], [success |-> FALSE, error |-> "500 Server Error"] }

\* ScraperSentimentPipeline.process_location, lines 27-47, of the pipeline
\* that owns instance i: scrape_location has returned scrape_result
process_location(scrape_result, analyze, analysis_result, timestamp) ==
  IF ~scrape_result.success THEN scrape_result
  ELSE
    LET step2 ==
          IF analyze /\ Get(scrape_result, "reviews", <<>>) # <<>> THEN
            IF Get(analysis_result, "success", FALSE)
              THEN Put(Put(scrape_result, "sentiment_analysis", analysis_result), "analyzed", TRUE)
              ELSE Put(Put(scrape_result, "sentiment_analysis",
                           [error |-> Get(analysis_result, "error", "None")]), "analyzed", FALSE)
          ELSE Put(scrape_result, "analyzed", FALSE)
    IN  Put(step2, "timestamp", timestamp)

\* process_location goes on after its scrape_location call has returned
\* with success: the analysis request is made and answered
AnalyzeScraped ==
  /\ scraper_pc = "returned"
  /\ scraper_returned # None
  /\ ~ResetHasReturned(TRUE) /\ ~ResetHasReturned(FALSE)
  /\ scraper_returned[1].success
  /\ "timestamp" \notin DOMAIN scraper_returned[1]
  /\ \E analyze \in BOOLEAN, analysis_result \in AnalysisOutcomes :
       scraper_returned' = Some(process_location(scraper_returned[1], analyze, analysis_result, scrapes))
  /\ UNCHANGED << cache_file, str_hash, scraped_review_ids, scraper_pc, scrapes, resets, restarts,
                  filter_call, own, recorded, file_recorded, batchVars, pureVars, jobVars >>

\* the caller has taken what the call returned
TakeResult ==
  /\ scraper_pc = "returned"
  /\ scraper_pc' = "idle"
  /\ scraper_returned' = None
  /\ filter_call' = None
  /\ UNCHANGED << cache_file, str_hash, scraped_review_ids, scrapes, resets, restarts, own, recorded,
                  file_recorded, batchVars, pureVars, jobVars >>

InitDedup ==
  /\ client = FALSE
  /\ is_google = FALSE
  /\ BatchIdle
  /\ str_hash \in HashFunctions
  /\ ScraperIdle
  /\ JobsIdle
  /\ PureIdle

NextDedup ==
  \/ \E i \in Instances : NewScraper(i)
  \/ \E i \in Instances : ScrapeLocation(i)
  \/ \E i \in Instances : ResetCacheForLocation(i)
  \/ AnalyzeScraped
  \/ \E i \in Instances : ResetAllCache(i)
  \/ Restart
  \/ TakeResult

SpecDedup == InitDedup /\ [][NextDedup]_vars

\* ------------------------------------------------------------------------
\* ReviewCleaner: calls of clean_review_text and filter_reviews
\* ------------------------------------------------------------------------
\* calls made on the same arguments
MaxCalls == 2

\* the texts of the calls
Blank == <<" ", " ">>
Ab == <<"a", "b">>
PaddedA == <<" ", "a", " ">>
Abc == <<"a", "b", "c">>
PaddedOke == <<" ", "o", "k", "e", "\n">>
TabbedAB == <<"a", "\t", " ", "b">>
OnlyOriginal == <<"(", "O", "r", "i", "g", "i", "n", "a", "l", ")">>
AroundOriginal == <<"a", " ", "(", "O", "r", "i", "g", "i", "n", "a", "l", ")", " ", "b">>
Translated == <<"(", "T", "r", "a", "n", "s", "l", "a", "t", "e", "d", " ", "b", "y", " ", "G", "o", "o", "g", "l", "e", ")", " ", "o", "k", " ", "(", "O", "r", "i", "g", "i", "n", "a", "l", ")", " ", "y", "a">>
Nested == <<"(", "O", "r", "i", "(", "O", "r", "i", "g", "i", "n", "a", "l", ")", "g", "i", "n", "a", "l", ")", " ", "x">>
GreatPlace == <<" ", " ", "g", "r", "e", "a", "t", " ", " ", " ", "p", "l", "a", "c", "e", "!", "!", " ", " ", "(", "T", "r", "a", "n", "s", "l", "a", "t", "e", "d", " ", "b", "y", " ", "G", "o", "o", "g", "l", "e", ")">>
OriginalAb == <<"(", "O", "r", "i", "g", "i", "n", "a", "l", ")", " ", "a", "b">>

CleanerTexts ==
  { <<>>, Blank, Ab, PaddedA, Abc, PaddedOke, TabbedAB, OnlyOriginal, AroundOriginal, Translated, Nested, GreatPlace, OriginalAb }

\* the reviews of the calls: text missing, null or given; with and without
\* image references; text under reviewText
CleanerReviews ==
  { [reviewerId |-> "u1"], [reviewerId |-> "u1", text |-> NoText] }
    \cup { [reviewerId |-> "u1", text |-> t] : t \in CleanerTexts }
    \cup { [reviewerId |-> "u1", reviewImageUrls |-> <<>>, text |-> t] : t \in CleanerTexts }
    \cup { [reviewerId |-> "u1", reviewImageUrls |-> <<"img1">>, text |-> t] :
              t \in CleanerTexts \cup {NoText} }
    \cup { [reviewerId |-> "u1", photos |-> <<"img1">>, text |-> t] : t \in {<<>>, Ab, Abc} }
    \cup { [reviewerId |-> "u1", reviewText |-> Abc],
           [reviewerId |-> "u1", text |-> <<>>, reviewText |-> PaddedOke],
           [reviewerId |-> "u1", text |-> NoText, reviewText |-> PaddedA] }

CleanerCalls ==
  { [fn |-> "clean_review_text", args |-> [text |-> t]] : t \in CleanerTexts }
    \cup { [fn |-> "filter_reviews", args |-> [reviews |-> revs]] :
             revs \in SeqsUpTo(CleanerReviews, MaxBatch) }

\* ReviewCleaner.clean_review_text(text): a str is immutable
CleanReviewText ==
  /\ fn_call.fn = "clean_review_text"
  /\ Len(fn_return) < MaxCalls
  /\ fn_return' = Append(fn_return, clean_review_text(fn_call.args.text))
  /\ UNCHANGED << fn_call, fn_given, batchVars, scraperVars, jobVars >>

\* ReviewCleaner.filter_reviews(reviews): the dicts of the caller's list are
\* the dicts the function assigns to
FilterReviews ==
  /\ fn_call.fn = "filter_reviews"
  /\ Len(fn_return) < MaxCalls
  /\ fn_return' = Append(fn_return, filter_reviews(fn_call.args.reviews))
  /\ fn_call' = [fn_call EXCEPT !.args.reviews = filter_reviews_effect(@)]
  /\ UNCHANGED << fn_given, batchVars, scraperVars, jobVars >>

InitCleaner ==
  /\ client = FALSE
  /\ is_google = FALSE
  /\ BatchIdle
  /\ str_hash = [s \in HashedPrefixes |-> 0]
  /\ ScraperIdle
  /\ JobsIdle
  /\ fn_call \in CleanerCalls
  /\ fn_given = fn_call.args
  /\ fn_return = <<>>

NextCleaner ==
  \/ CleanReviewText
  \/ FilterReviews

SpecCleaner == InitCleaner /\ [][NextCleaner]_vars

\* ------------------------------------------------------------------------
\* GitHubModelsSentimentAnalyzer: calls of fallback_analysis and of
\* analyze_with_github
\* ------------------------------------------------------------------------
\* ratings of the calls: 3 - MaxRatingOffset .. 3 + MaxRatingOffset
MaxRatingOffset == 6

\* the review texts of the calls
SangatBagus == <<"s", "a", "n", "g", "a", "t", " ", "b", "a", "g", "u", "s">>
BagusBagus == <<"b", "a", "g", "u", "s", " ", "b", "a", "g", "u", "s">>
SangatBurukTerribleWorst == <<"s", "a", "n", "g", "a", "t", " ", "b", "u", "r", "u", "k", " ", "t", "e", "r", "r", "i", "b", "l", "e", " ", "w", "o", "r", "s", "t">>
LuarBiasaExcellentPerfect == <<"L", "u", "a", "r", " ", "b", "i", "a", "s", "a", ",", " ", "E", "X", "C", "E", "L", "L", "E", "N", "T", ",", " ", "p", "e", "r", "f", "e", "c", "t">>
Oke == <<"o", "k", "e">>
TidakEnak == <<"t", "i", "d", "a", "k", " ", "e", "n", "a", "k">>
Kurang == <<"k", "u", "r", "a", "n", "g">>
SemuaTema == <<"p", "e", "l", "a", "y", "a", "n", "a", "n", " ", "r", "a", "m", "a", "h", ",", " ", "h", "a", "r", "g", "a", " ", "m", "a", "h", "a", "l", ",", " ", "m", "a", "k", "a", "n", "a", "n", " ", "l", "a", "m", "a", ",", " ", "t", "e", "m", "p", "a", "t", " ", "k", "o", "t", "o", "r">>
LumayanBuruk == <<"l", "u", "m", "a", "y", "a", "n", " ", "b", "u", "r", "u", "k">>
TidakBagus == <<"t", "i", "d", "a", "k", " ", "b", "a", "g", "u", "s">>

EngineTexts ==
  { <<>>, Bagus, Buruk, SangatBagus, BagusBagus, SangatBurukTerribleWorst, LuarBiasaExcellentPerfect, Oke, TidakEnak, Kurang, SemuaTema,
    LumayanBuruk, TidakBagus }

\* the rating is an int, or None (a JSON null)
EngineRatings == {None} \cup {Some(r) : r \in (3 - MaxRatingOffset)..(3 + MaxRatingOffset)}

EngineCalls ==
  { [ fn |-> "fallback_analysis",
      args |-> [review |-> t, rating |-> r, review_id |-> "REV001", error_msg |-> m] ] :
      t \in EngineTexts, r \in EngineRatings, m \in {"", "timeout"} }
    \cup
  { [ fn |-> "analyze_with_github",
      args |-> [ review |-> t, rating |-> r, review_id |-> "REV001",
                 reviewer_name |-> None, review_at |-> None, is_google |-> FALSE,
                 has_client |-> c, remote |-> b ] ] :
      t \in EngineTexts, r \in EngineRatings, c \in BOOLEAN, b \in RemoteBehaviours }

\* GitHubModelsSentimentAnalyzer.fallback_analysis(review, rating, review_id, error_msg)
FallbackAnalysis ==
  /\ fn_call.fn = "fallback_analysis"
  /\ Len(fn_return) < MaxCalls
  /\ fn_return' = Append(fn_return,
                         fallback_analysis(fn_call.args.review, fn_call.args.rating,
                                           fn_call.args.review_id, fn_call.args.error_msg))
  /\ UNCHANGED << fn_call, fn_given, batchVars, scraperVars, jobVars >>

\* GitHubModelsSentimentAnalyzer.analyze_with_github(...), awaited
AnalyzeWithGithub ==
  /\ fn_call.fn = "analyze_with_github"
  /\ Len(fn_return) < MaxCalls
  /\ fn_return' = Append(fn_return,
                         analyze_with_github(fn_call.args.review, fn_call.args.rating,
                                             fn_call.args.review_id, fn_call.args.reviewer_name,
                                             fn_call.args.review_at, fn_call.args.is_google,
                                             fn_call.args.has_client, fn_call.args.remote))
  /\ UNCHANGED << fn_call, fn_given, batchVars, scraperVars, jobVars >>

InitEngine ==
  /\ client = FALSE
  /\ is_google = FALSE
  /\ BatchIdle
  /\ str_hash = [s \in HashedPrefixes |-> 0]
  /\ ScraperIdle
  /\ JobsIdle
  /\ fn_call \in EngineCalls
  /\ fn_given = fn_call.args
  /\ fn_return = <<>>

NextEngine ==
  \/ FallbackAnalysis
  \/ AnalyzeWithGithub

SpecEngine == InitEngine /\ [][NextEngine]_vars

\* ------------------------------------------------------------------------
\* Ingestion: the id a review is analysed under
\* ------------------------------------------------------------------------
\* a or b of Python on optional values: None and the falsy value of the
\* type of a ("" for a str, 0 for a number) give b
Or(a, falsy, b) == IF a = None \/ a = Some(falsy) THEN b ELSE a

\* review.get(key): the value, None when the key is missing or null
Opt(review, key) == Get(review, key, None)

\* what uuid.uuid4() may return
Uuids == {"uuid-a", "uuid-b"}

\* SentimentAnalysisConnector.format_review_for_analysis(review), uuid being
\* the value of str(uuid.uuid4()), which is evaluated in every call
format_review_for_analysis(review, uuid) ==
  [ id            |-> Or(Opt(review, "reviewId"), "", Get(review, "id", Some(uuid))),
    full_review   |-> Or(Opt(review, "text"), <<>>, Or(Opt(review, "reviewText"), <<>>, Some(<<>>))),
    rating        |-> Or(Opt(review, "stars"), 0, Get(review, "rating", Some(3))),
    reviewer_name |-> Opt(review, "name"),
    review_date   |-> Or(Opt(review, "publishedAtDate"), "", Opt(review, "publishAt")),
    likes         |-> Get(review, "likesCount", Some(0)) ]

\* line 141 of smart_batch_analyze for the review at position idx (from 0)
review_id_at(rev, idx) == Get(rev, "id", RevId(idx))

\* the Apify reviews of the calls: with a reviewId, with an id, with neither
ApifyReviews ==
  { Put(Put(ident, "text", Some(t)), "name", Some(n)) :
      ident \in { [reviewId |-> Some("g1")],
                  [reviewId |-> Some("g1"), id |-> Some("a1")],
                  [reviewId |-> None, id |-> Some("a1")],
                  [id |-> Some("a1")],
                  [id |-> None],
                  [reviewId |-> None],
                  [stars |-> Some(5)],
                  [stars |-> Some(1), publishedAtDate |-> Some("d1")] },
      t \in {Bagus, Buruk},
      n \in {"Ann", "Budi"} }

IngestCalls ==
  { [fn |-> "format_review_for_analysis", args |-> [review |-> r]] : r \in ApifyReviews }
    \cup { [fn |-> "smart_batch_analyze", args |-> [rev |-> r]] : r \in ReviewInputs }

\* one more ingestion of the scraped review through the connector
FormatReviewForAnalysis ==
  /\ fn_call.fn = "format_review_for_analysis"
  /\ Len(fn_return) < MaxCalls
  /\ \E uuid \in Uuids :
       fn_return' = Append(fn_return, format_review_for_analysis(fn_call.args.review, uuid))
  /\ UNCHANGED << fn_call, fn_given, batchVars, scraperVars, jobVars >>

\* one more submission of the review to smart_batch_analyze, at some
\* position of the request
SubmitReview ==
  /\ fn_call.fn = "smart_batch_analyze"
  /\ Len(fn_return) < MaxCalls
  /\ \E idx \in 0..(MaxBatch - 1) :
       fn_return' = Append(fn_return, [id |-> review_id_at(fn_call.args.rev, idx), idx |-> idx])
  /\ UNCHANGED << fn_call, fn_given, batchVars, scraperVars, jobVars >>

InitIngest ==
  /\ client = FALSE
  /\ is_google = FALSE
  /\ BatchIdle
  /\ str_hash = [s \in HashedPrefixes |-> 0]
  /\ ScraperIdle
  /\ JobsIdle
  /\ fn_call \in IngestCalls
  /\ fn_given = fn_call.args
  /\ fn_return = <<>>

NextIngest ==
  \/ FormatReviewForAnalysis
  \/ SubmitReview

SpecIngest == InitIngest /\ [][NextIngest]_vars

\* ------------------------------------------------------------------------
\* Scraper API: /api/scrape, /api/scrape-async and its background task,
\* /api/job/{job_id}, /api/stats
\* ------------------------------------------------------------------------
\* jobs created by the requests of the model
MaxJobs == 2

\* the job ids in the order in which uuid.uuid4() delivers them, and an id
\* that no job gets
JobIds == <<"job-1", "job-2">>
UnknownJob == "job-x"

\* an id that a job already has
NewJobId_reused == JobIds[Max(1, Cardinality(DOMAIN jobs_storage))]

\* str(uuid.uuid4()) of line 101: an id that no job has yet
NewJobId == JobIds[Cardinality(DOMAIN jobs_storage) + 1]

\* what scrape_location of the pipeline's scraper returns: a failure, no new
\* valid review, one new valid review
ScrapeResults ==
  { Failure("No data found"),
    [success |-> TRUE, reviews |-> <<>>],
    [success |-> TRUE, reviews |-> <<[reviewerId |-> "u1", text |-> Abc]>>] }

\* ScraperSentimentPipeline().process_location(...) of lines 80-85 and
\* 192-197: what it returns, or an exception it raises (the constructor of
\* the Apify client or of the scraper)
PipelineOutcomes(analyze) ==
  { process_location(scrape_result, analyze, analysis_result, 0) :
      scrape_result \in ScrapeResults, analysis_result \in AnalysisOutcomes }
    \cup { Exc("Exception", "apify client") }

\* str(e) of the HTTPException raised at line 88: "400: detail" with a
\* Starlette that defines __str__, "" with one that does not
StrOfHTTPException(status_code, detail) == { "400: " \o detail, "" }

\* POST /api/scrape, lines 73-93
ScrapeSync ==
  /\ \E analyze \in BOOLEAN :
       \E result \in PipelineOutcomes(analyze) :
         /\ pipeline_outcome' = Some(result)
         /\ IF IsException(result) THEN
              http_response' = Some([endpoint |-> "scrape", status_code |-> 500, detail |-> result.msg])
            ELSE IF ~result.success THEN
              \* the HTTPException of line 88 is raised inside the try and is
              \* an Exception: line 92 catches it
              \E str_e \in StrOfHTTPException(400, Get(result, "error", "None")) :
                http_response' = Some([endpoint |-> "scrape", status_code |-> 500, detail |-> str_e])
            ELSE
              http_response' = Some([endpoint |-> "scrape", status_code |-> 200, body |-> result])
  /\ UNCHANGED << jobs_storage, job_task, batchVars, scraperVars, pureVars >>

\* POST /api/scrape-async, lines 95-115
ScrapeLocationAsync ==
  /\ Cardinality(DOMAIN jobs_storage) < MaxJobs
  /\ \E analyze \in BOOLEAN :
       LET job_id == NewJobId
       IN  /\ jobs_storage' = Put(jobs_storage, job_id,
                                  [ status |-> "processing",
                                    created_at |-> Cardinality(DOMAIN jobs_storage),
                                    progress |-> [stage |-> "scraping", percentage |-> 0] ])
           /\ job_task' = Put(job_task, job_id, [pc |-> "queued", analyze |-> analyze])
           /\ http_response' =
                Some([ endpoint |-> "scrape-async", status_code |-> 200,
                       body |-> [job_id |-> job_id, status |-> "processing"] ])
  /\ pipeline_outcome' = None
  /\ UNCHANGED << batchVars, scraperVars, pureVars >>

\* the background task of job_id moves from pc to next with its locals
TaskAt(job_id, at) == job_id \in DOMAIN job_task /\ job_task[job_id].pc = at
TaskGoes(job_id, next) == job_task' = [job_task EXCEPT ![job_id].pc = next]

\* jobs_storage[job_id][key] = value
SetJob(job_id, key, value) ==
  jobs_storage' = [jobs_storage EXCEPT ![job_id] = Put(@, key, value)]

\* process_scrape_job, line 190
StartTask(job_id) ==
  /\ TaskAt(job_id, "queued")
  /\ SetJob(job_id, "progress", [stage |-> "scraping", percentage |-> 30])
  /\ TaskGoes(job_id, "scraping")
  /\ UNCHANGED << http_response, pipeline_outcome, batchVars, scraperVars, pureVars >>

\* process_scrape_job, lines 192-199 and 207: the pipeline call returns
\* result or raises e
CallPipeline(job_id) ==
  /\ TaskAt(job_id, "scraping")
  /\ \E result \in PipelineOutcomes(job_task[job_id].analyze) :
       job_task' = [job_task EXCEPT ![job_id] =
                      Put(Put(@, "result", result), "pc",
                          IF IsException(result) THEN "line208"
                          ELSE IF result.success THEN "line200" ELSE "line204")]
  /\ UNCHANGED << jobs_storage, http_response, pipeline_outcome, batchVars, scraperVars, pureVars >>

\* process_scrape_job, line 200
MarkProgressCompleted(job_id) ==
  /\ TaskAt(job_id, "line200")
  /\ SetJob(job_id, "progress", [stage |-> "completed", percentage |-> 100])
  /\ TaskGoes(job_id, "line201")
  /\ UNCHANGED << http_response, pipeline_outcome, batchVars, scraperVars, pureVars >>

\* process_scrape_job, line 201
MarkCompleted(job_id) ==
  /\ TaskAt(job_id, "line201")
  /\ SetJob(job_id, "status", "completed")
  /\ TaskGoes(job_id, "line202")
  /\ UNCHANGED << http_response, pipeline_outcome, batchVars, scraperVars, pureVars >>

\* process_scrape_job, line 202
StoreResult(job_id) ==
  /\ TaskAt(job_id, "line202")
  /\ SetJob(job_id, "result", job_task[job_id].result)
  /\ TaskGoes(job_id, "done")
  /\ UNCHANGED << http_response, pipeline_outcome, batchVars, scraperVars, pureVars >>

\* the failure branches without their status assignment
MarkFailed_kept_processing(job_id) ==
  /\ \E at \in {"line204", "line208"} :
       /\ TaskAt(job_id, at)
       /\ TaskGoes(job_id, IF at = "line204" THEN "line205" ELSE "line209")
  /\ UNCHANGED << jobs_storage, http_response, pipeline_outcome, batchVars, scraperVars, pureVars >>

\* process_scrape_job, line 204 or line 208
MarkFailed(job_id) ==
  /\ \E at \in {"line204", "line208"} :
       /\ TaskAt(job_id, at)
       /\ TaskGoes(job_id, IF at = "line204" THEN "line205" ELSE "line209")
  /\ SetJob(job_id, "status", "failed")
  /\ UNCHANGED << http_response, pipeline_outcome, batchVars, scraperVars, pureVars >>

\* process_scrape_job, line 205 (result.get("error")) or line 209 (str(e))
StoreError(job_id) ==
  /\ \E at \in {"line205", "line209"} :
       /\ TaskAt(job_id, at)
       /\ SetJob(job_id, "error",
                 IF at = "line205" THEN Get(job_task[job_id].result, "error", "None")
                 ELSE job_task[job_id].result.msg)
  /\ TaskGoes(job_id, "done")
  /\ UNCHANGED << http_response, pipeline_outcome, batchVars, scraperVars, pureVars >>

\* one statement of the background task of a job
TaskStep(job_id) ==
  \/ StartTask(job_id)
  \/ CallPipeline(job_id)
  \/ MarkProgressCompleted(job_id)
  \/ MarkCompleted(job_id)
  \/ StoreResult(job_id)
  \/ MarkFailed(job_id)
  \/ StoreError(job_id)

\* GET /api/job/{job_id}, lines 149-155
GetJobStatus ==
  /\ \E job_id \in {JobIds[k] : k \in 1..MaxJobs} \cup {UnknownJob} :
       http_response' =
         IF job_id \notin DOMAIN jobs_storage
           THEN Some([endpoint |-> "job", status_code |-> 404, detail |-> "Job not found"])
           ELSE Some([endpoint |-> "job", status_code |-> 200, body |-> jobs_storage[job_id]])
  /\ pipeline_outcome' = None
  /\ UNCHANGED << jobs_storage, job_task, batchVars, scraperVars, pureVars >>

\* the jobs with this status
JobsWith(status) == {j \in DOMAIN jobs_storage : jobs_storage[j].status = status}

\* GET /api/stats, lines 173-181
GetStats ==
  /\ http_response' =
       Some([ endpoint |-> "stats", status_code |-> 200,
              body |-> [ active_jobs |-> Cardinality(JobsWith("processing")),
                         completed_jobs |-> Cardinality(JobsWith("completed")),
                         failed_jobs |-> Cardinality(JobsWith("failed")),
                         total_jobs |-> Cardinality(DOMAIN jobs_storage) ] ])
  /\ pipeline_outcome' = None
  /\ UNCHANGED << jobs_storage, job_task, batchVars, scraperVars, pureVars >>

InitJobs ==
  /\ client = FALSE
  /\ is_google = FALSE
  /\ BatchIdle
  /\ str_hash = [s \in HashedPrefixes |-> 0]
  /\ ScraperIdle
  /\ PureIdle
  /\ JobsIdle

NextJobs ==
  \/ ScrapeSync
  \/ ScrapeLocationAsync
  \/ \E job_id \in DOMAIN job_task : StartTask(job_id)
  \/ \E job_id \in DOMAIN job_task : CallPipeline(job_id)
  \/ \E job_id \in DOMAIN job_task : MarkProgressCompleted(job_id)
  \/ \E job_id \in DOMAIN job_task : MarkCompleted(job_id)
  \/ \E job_id \in DOMAIN job_task : StoreResult(job_id)
  \/ \E job_id \in DOMAIN job_task : MarkFailed(job_id)
  \/ \E job_id \in DOMAIN job_task : StoreError(job_id)
  \/ GetJobStatus
  \/ GetStats

SpecJobs == InitJobs /\ [][NextJobs]_vars

\* the background task of every job is run: Starlette runs the tasks added
\* to the response after it is sent, each statement returns, and the
\* pipeline call returns or raises
TaskFairness == \A k \in 1..MaxJobs : WF_vars(TaskStep(JobIds[k]))

SpecJobsFair == SpecJobs /\ TaskFairness

\* ------------------------------------------------------------------------
\* Properties
\* ------------------------------------------------------------------------
\* id and text of the i-th review of the request, as lines 141-142 read them
ReviewIdAt(i)   == Get(reviews[i], "id", RevId(i - 1))
ReviewTextAt(i) == Get(reviews[i], "full_review", <<>>)

\* the store holds a record with the id and exactly the text of review i
StoredSame(i) ==
  \E r \in sentiment_analysis : r.id = ReviewIdAt(i) /\ r.review_text = ReviewTextAt(i)
\* the store holds a record with the id of review i and another text
StoredStale(i) ==
  \E r \in sentiment_analysis : r.id = ReviewIdAt(i) /\ r.review_text # ReviewTextAt(i)

C2_ServedFromStore ==
  pc = "checked" =>
    \A i \in 1..Len(reviews) :
      ( /\ ~force_reanalyze
        /\ lookup_ok[i]
        /\ \E h \in analysed : h.id = ReviewIdAt(i) /\ h.text = ReviewTextAt(i)
        /\ ReviewTextAt(i) # <<>> )
      => ( /\ item_state[i] = "cache_hit"
           /\ ~InSeq(i, origin)
           /\ \E k \in 1..Len(results) :
                results[k].id = ReviewIdAt(i) /\ results[k].from_cache = TRUE )

\* the response lists a result for review i that came from the engine
InResults(i) ==
  /\ response.success
  /\ \E k \in 1..Len(response.results) :
       response.results[k].id = ReviewIdAt(i) /\ response.results[k].from_cache = FALSE

\* the response lists an error for review i (sequential mode names the id,
\* parallel mode the index into reviews_to_analyze)
InErrors(i) ==
  /\ response.success
  /\ \E k \in 1..Len(response.errors) :
       IF parallel
         THEN \E j \in 1..Len(origin) : origin[j] = i /\ response.errors[k].index = j - 1
         ELSE response.errors[k].id = ReviewIdAt(i)

\* the input reviews whose own handling failed: the engine call raised or
\* save_analysis raised
SelfFailed == {i \in DOMAIN item_trace : "raised" \in {item_trace[i].engine, item_trace[i].save}}

\* C3: with a reachable store, in parallel and in sequential mode, a review
\* whose remote path failed and was answered by the fallback is reported in
\* results with the fallback's result; it is not in errors and the batch does
\* not fail.
C3_FallbackInResults ==
  (pc = "returned" /\ store_ok) =>
    \A i \in DOMAIN item_trace :
      item_trace[i].engine = "rule_based_fallback" =>
        /\ response.success
        /\ \E k \in 1..Len(response.results) :
             /\ response.results[k].id = ReviewIdAt(i)
             /\ response.results[k].source = "rule_based_fallback"
        /\ ~InErrors(i)
        /\ item_state[i] = "analyzed_success"

\* C4: in parallel and in sequential mode, a request with reviews returns
\* success with failed equal to the number of reviews that themselves failed,
\* and every dispatched review that did not fail itself is in results.
C4_FailureIsolated ==
  (pc = "returned" /\ reviews # <<>>) =>
    /\ response.success
    /\ response.failed = Cardinality(SelfFailed)
    /\ \A i \in DOMAIN item_trace :
         (InSeq(i, origin) /\ i \notin SelfFailed) => InResults(i)

\* C5: a review whose analysis succeeded and whose save_analysis did not
\* succeed (it returned False or it raised) is in results with
\* saved_to_db = FALSE and is not in errors.
C5_UnsavedInResults ==
  pc = "returned" =>
    \A i \in DOMAIN item_trace :
      item_trace[i].save \in {"not_saved", "raised"} =>
        /\ response.success
        /\ \E k \in 1..Len(response.results) :
             /\ response.results[k].id = ReviewIdAt(i)
             /\ response.results[k].saved_to_db = FALSE
        /\ ~InErrors(i)

\* C6: analyze_with_github never raises: for every review the handler passes
\* to it, with or without a client and whatever the remote client does, it
\* returns a result, from the model when the remote path succeeds and else from
\* fallback_analysis with source rule_based_fallback and the error message in
\* its note.
C6_NeverRaises ==
  pc \in {"gather", "seq_wait"} =>
    \A k \in DOMAIN reviews_to_analyze, has_client \in BOOLEAN, remote \in RemoteBehaviours :
      LET result == Analyze(reviews_to_analyze[k], is_google, has_client, remote)
          failure == RemoteFailure(has_client, remote)
      IN  /\ ~IsException(result)
          /\ IsNone(failure) => result.source = "github_models"
          /\ ~IsNone(failure) =>
               /\ result.source = "rule_based_fallback"
               /\ failure[1].msg # "" => result.note = <<"Fallback used: ", failure[1].msg>>

\* the fields of a result that describe the review and its analysis
SemanticFields ==
  { "id", "review_text", "rating", "reviewer_name", "review_at", "sentiment",
    "sentiment_score", "themes", "analysis_reasons", "ai_suggestions", "source" }

\* this step is a sequential-mode save_analysis call that returned True
SeqSaved ==
  /\ pc = "seq_wait"
  /\ item_trace'[origin[pos]].save = "saved"

\* the result that the save_analysis call of this step stored
SeqResult ==
  LET rs == IF pc' = "returned" THEN response'.results ELSE results'
  IN  rs[Len(rs)]

\* the row under the id of SeqResult before and after this step
RowBefore == get_analysis(SeqResult.id, TRUE, sentiment_analysis)
RowAfter  == get_analysis(SeqResult.id, TRUE, sentiment_analysis')

\* the row stored before this step is the row a save of SeqResult leaves
SavedBefore ==
  /\ ~IsNone(RowBefore)
  /\ [RowBefore[1] EXCEPT !.analyzed_at = 0, !.updated_at = 0] = RowOf(SeqResult, 0, 0)

\* C7 as stated: after save_analysis(r) succeeded, get_analysis(r.id) returns
\* exactly r's semantic fields whatever was stored under the id before, the
\* store holds one row for the id, and a second save of the same r leaves
\* get_analysis(r.id) as it was after the first.
C7_LastWriteWins ==
  [][ SeqSaved =>
        /\ ~IsNone(RowAfter)
        /\ \A f \in SemanticFields : RowAfter[1][f] = SeqResult[f]
        /\ Cardinality({row \in sentiment_analysis' : row.id = SeqResult.id}) = 1
        /\ SavedBefore => RowAfter = RowBefore ]_vars

\* C7 amended: after save_analysis(r) succeeded, get_analysis(r.id) returns
\* r's semantic fields as the table represents them (sentiment_score rounded
\* to two decimals, review_at parsed to a datetime without offset or NULL,
\* every other field as given) whatever was stored under the id before, the
\* store holds one row for the id, analyzed_at is the time of the first save
\* and updated_at the time of this one; a second save of the same r changes
\* nothing of get_analysis(r.id) but updated_at.
C7_Upsert ==
  [][ SeqSaved =>
        /\ ~IsNone(RowAfter)
        /\ \A f \in SemanticFields \ {"sentiment_score", "review_at"} :
             RowAfter[1][f] = SeqResult[f]
        /\ RowAfter[1].sentiment_score = Decimal32(SeqResult.sentiment_score)
        /\ RowAfter[1].review_at = parse_datetime_for_mysql(SeqResult.review_at)
        /\ Cardinality({row \in sentiment_analysis' : row.id = SeqResult.id}) = 1
        /\ RowAfter[1].updated_at = now
        /\ RowAfter[1].analyzed_at = (IF IsNone(RowBefore) THEN now ELSE RowBefore[1].analyzed_at)
        /\ SavedBefore => [RowAfter[1] EXCEPT !.updated_at = RowBefore[1].updated_at] = RowBefore[1]
    ]_vars

\* C7 witness: the request saved a result under an id that held a row (the
\* row is older than its last update), next to a row of another id
C7_Witness ==
  /\ pc = "returned"
  /\ ~parallel
  /\ \E i \in DOMAIN item_trace, row \in sentiment_analysis :
       /\ item_trace[i].save = "saved"
       /\ row.id = ReviewIdAt(i)
       /\ row.review_text = ReviewTextAt(i)
       /\ row.analyzed_at < row.updated_at
       /\ \E other \in sentiment_analysis : other.id # row.id

\* the subsequence of revs at the positions in keep
Pick(revs, keep) ==
  LET F[k \in 0..Len(revs)] ==
        IF k = 0 THEN <<>>
        ELSE IF k \in keep THEN Append(F[k - 1], revs[k]) ELSE F[k - 1]
  IN  F[Len(revs)]

\* the fingerprint of the k-th review of the last _filter_new_reviews call
FingerprintAt(k) == ReviewIds[str_hash][filter_call[1].reviews[k]].fp

\* C8: _filter_new_reviews(reviews, place_id) returns, in input order, exactly
\* the reviews whose fingerprint was not in the set of place_id before the call
\* and is not the fingerprint of an earlier review of the call; after it the
\* set of place_id is the old set plus the fingerprints of all input reviews.
C8_FirstOccurrenceWins ==
  ~IsNone(filter_call) =>
    LET c == filter_call[1]
    IN  /\ IsNone(c.raised)
        /\ c.new_reviews =
             Pick(c.reviews, {k \in 1..Len(c.reviews) :
                                /\ FingerprintAt(k) \notin c.before
                                /\ \A j \in 1..(k - 1) : FingerprintAt(j) # FingerprintAt(k)})
        /\ IndexOf(c.inst)[c.place_id] =
             c.before \cup {FingerprintAt(k) : k \in 1..Len(c.reviews)}

\* C9: for one instance and one place_id, a review that the instance has
\* filtered before (since the last reset) is not returned again, and a review
\* filtered when nothing is recorded for the place_id (at first, or after
\* reset_cache_for_location or reset_all_cache) is returned.
C9_OnceUntilReset ==
  /\ ~IsNone(filter_call) =>
       LET c == filter_call[1]
       IN  /\ IsNone(c.raised)
           /\ \A k \in 1..Len(c.reviews) :
                c.reviews[k] \in c.own_before => ~InSeq(c.reviews[k], c.new_reviews)
           /\ (c.recorded_before = {} /\ c.reviews # <<>>) =>
                (c.new_reviews # <<>> /\ c.new_reviews[1] = c.reviews[1])
  /\ \A i \in Instances, p \in Places :
       (~IsNone(scraped_review_ids[i]) /\ Get(recorded[i], p, {}) = {}) =>
         Get(IndexOf(i), p, {}) = {}

\* C10: the index is persistent across instances and process runs: a review
\* whose fingerprint is in the index of an instance, recorded by the instance
\* itself or loaded from the cache file that an earlier instance (of this or
\* of an earlier process) wrote, is dropped by _filter_new_reviews.
C10_PersistentIndex ==
  ~IsNone(filter_call) =>
    LET c == filter_call[1]
    IN  IsNone(c.raised) =>
          \A k \in 1..Len(c.reviews) :
            c.reviews[k] \in c.recorded_before => ~InSeq(c.reviews[k], c.new_reviews)

\* ------------------------------------------------------------------------
\* C11-C13: the index of a ReviewScraper and the cache file
\* ------------------------------------------------------------------------
\* the fingerprints instance i holds for place_id p
FingerprintsOf(ids, p) == Get(ids, p, {})

\* C11: a step that is not a reset (reset_cache_for_location, reset_all_cache)
\* leaves the fingerprint set of every place_id of every living ReviewScraper a
\* superset of what it was: scrape_location / _filter_new_reviews only add,
\* also when the call ends in an exception.
C11_IndexGrows ==
  [][ resets' = resets =>
        \A i \in Instances, p \in Places :
          (~IsNone(scraped_review_ids[i]) /\ ~IsNone(scraped_review_ids'[i])) =>
            FingerprintsOf(IndexOf(i), p) \subseteq FingerprintsOf(scraped_review_ids'[i][1], p) ]_vars

\* a scrape_location has added fingerprints to a set that was not empty
C11_Witness ==
  /\ scraper_pc = "returned"
  /\ ~IsNone(filter_call)
  /\ filter_call[1].before # {}
  /\ filter_call[1].before \subseteq FingerprintsOf(IndexOf(filter_call[1].inst), filter_call[1].place_id)
  /\ filter_call[1].before # FingerprintsOf(IndexOf(filter_call[1].inst), filter_call[1].place_id)

\* C12: write-through.  When scrape_location, reset_cache_for_location or
\* reset_all_cache of a ReviewScraper returns and has changed the in-memory
\* index of that instance, the cache file holds exactly that index.
C12_WriteThrough ==
  [][ (scraper_pc = "idle" /\ scraper_pc' = "returned") =>
        \A i \in Instances :
          ( /\ ~IsNone(scraped_review_ids[i])
            /\ ~IsNone(scraped_review_ids'[i])
            /\ scraped_review_ids'[i] # scraped_review_ids[i] ) =>
            cache_file' = Some(JsonFile(scraped_review_ids'[i][1])) ]_vars

\* C13: scrapes of different place_ids are independent.  When the
\* scrape_location of one ReviewScraper has saved its index, the file still
\* holds every fingerprint it held for the other place_ids: the save of one
\* job neither removes nor overwrites what another job has saved.
C13_IndependentSaves ==
  [][ ( /\ scraper_pc = "idle" /\ scraper_pc' = "returned"
        /\ scrapes' = scrapes + 1
        /\ ~IsNone(filter_call')
        /\ cache_file' # cache_file
        /\ cache_file' # Some(BrokenFile) ) =>
        \A q \in Places \ {filter_call'[1].place_id} :
          FingerprintsOf(_load_cache(cache_file), q)
            \subseteq FingerprintsOf(_load_cache(cache_file'), q) ]_vars

\* ------------------------------------------------------------------------
\* C14-C16: ReviewCleaner
\* ------------------------------------------------------------------------
\* the class of a review: image-only first, then by the trimmed text
ClassOf(review) ==
  LET trimmed == Strip(TextOf(review))
      image_refs == \/ Get(review, "reviewImageUrls", <<>>) # <<>>
                    \/ Get(review, "photos", <<>>) # <<>>
  IN  IF image_refs /\ Len(trimmed) < 3 THEN "only_images"
      ELSE IF trimmed = <<>> THEN "no_text"
      ELSE IF Len(trimmed) \in 1..2 THEN "too_short"
      ELSE "valid"

\* the positions of revs whose review is of class c
InClass(revs, c) == {k \in 1..Len(revs) : ClassOf(revs[k]) = c}

\* the n-th smallest element of a set of positions
NthOf(positions, n) == CHOOSE k \in positions : Cardinality({j \in positions : j < k}) = n - 1

\* C14: filter_reviews puts every review of its input in exactly one class
\* (only_images, else no_text, else too_short, else valid); the counts of
\* stats are the sizes of the classes and add up to total, the number of
\* inputs; valid_reviews holds the caller's valid reviews, in input order.
C14_Partition ==
  (fn_call.fn = "filter_reviews" /\ Len(fn_return) = 1) =>
    LET given == fn_given.reviews
        out   == fn_return[1]
        valid == InClass(given, "valid")
    IN  /\ out.stats.total = Len(given)
        /\ out.stats.valid = Cardinality(valid)
        /\ out.stats.no_text = Cardinality(InClass(given, "no_text"))
        /\ out.stats.only_images = Cardinality(InClass(given, "only_images"))
        /\ out.stats.too_short = Cardinality(InClass(given, "too_short"))
        /\ out.stats.total = out.stats.valid + out.stats.no_text
                               + out.stats.only_images + out.stats.too_short
        /\ Len(out.valid_reviews) = Cardinality(valid)
        /\ \A n \in 1..Len(out.valid_reviews) :
             /\ out.valid_reviews[n] = fn_call.args.reviews[NthOf(valid, n)]
             /\ \A key \in DOMAIN given[NthOf(valid, n)] \ {"text"} :
                  out.valid_reviews[n][key] = given[NthOf(valid, n)][key]

\* filter_reviews has returned for a list of an image-only review without
\* text followed by a valid review
C14_Witness ==
  /\ fn_call.fn = "filter_reviews"
  /\ Len(fn_return) = 1
  /\ Len(fn_given.reviews) = 2
  /\ ClassOf(fn_given.reviews[1]) = "only_images"
  /\ Strip(TextOf(fn_given.reviews[1])) = <<>>
  /\ ClassOf(fn_given.reviews[2]) = "valid"
  /\ fn_return[1].stats.only_images = 1
  /\ Len(fn_return[1].valid_reviews) = 1

\* a normalized text: no whitespace at either end, no two whitespace
\* characters in a row, no translation artifact left
Normalized(text) ==
  /\ text # <<>> => (~IsSpace(text[1]) /\ ~IsSpace(text[Len(text)]))
  /\ \A k \in 1..(Len(text) - 1) : ~(IsSpace(text[k]) /\ IsSpace(text[k + 1]))
  /\ ~IsSubstring(TranslatedByGoogle, text)
  /\ ~IsSubstring(Original, text)

\* C15: what clean_review_text returns is normalized, whatever the text.
C15_Normalized ==
  (fn_call.fn = "clean_review_text" /\ Len(fn_return) >= 1) => Normalized(fn_return[1])

\* C16: filter_reviews is a pure function: after the call the caller's list
\* and its review records are what they were before it, and a second call on
\* the same list returns what the first call returned.
C16_Pure ==
  (fn_call.fn = "filter_reviews" /\ Len(fn_return) >= 1) =>
    /\ fn_call.args = fn_given
    /\ \A n \in 1..Len(fn_return) : fn_return[n] = fn_return[1]

\* ------------------------------------------------------------------------
\* C17-C20: the results of the sentiment engine
\* ------------------------------------------------------------------------
\* the results the calls made so far returned (an exception is not a result)
Returned == {fn_return[n] : n \in {k \in 1..Len(fn_return) : ~IsException(fn_return[k])}}

\* the results that come from fallback_analysis
FallbackResults ==
  IF fn_call.fn \in {"fallback_analysis", "analyze_with_github"}
    THEN {r \in Returned : r.source = "rule_based_fallback"}
    ELSE {}

\* the keywords of a list that occur in the text
Present(words, text) == {w \in {words[i] : i \in 1..Len(words)} : IsSubstring(w, text)}

\* min(1, (2*strong + 1*medium + 0.3*weak) / 5) in fiftieths
RefLexScore50(lexicon, text) ==
  Min(50, 20 * Cardinality(Present(lexicon.strong, text))
            + 10 * Cardinality(Present(lexicon.medium, text))
            + 3 * Cardinality(Present(lexicon.weak, text)))

\* 0.7*(pos_score - neg_score) + 0.3*(rating - 3)/2 in thousandths
RefFinal1000(review, rating) ==
  14 * (RefLexScore50(POSITIVE, Lower(review)) - RefLexScore50(NEGATIVE, Lower(review)))
    + 150 * (rating - 3)

\* clamp(x, -1, 1) in thousandths
Clamp1000(x) == Max(-1000, Min(1000, x))

\* the final score of the call in hand by the reference formula
GivenFinal1000 == RefFinal1000(fn_given.review, fn_given.rating[1])

\* C17: for every text and every integer rating, in 1..5 or not, the
\* sentiment_score of a fallback result lies in [-1.0, 1.0] and its sentiment
\* is Positive exactly when the final score is above 0.2, Negative exactly
\* when it is below -0.2 and Neutral otherwise (0.2 itself is Neutral).
C17_Thresholds ==
  \A r \in FallbackResults :
    /\ r.sentiment_score \in -1000..1000
    /\ r.sentiment = "Positive" <=> GivenFinal1000 > 200
    /\ r.sentiment = "Negative" <=> GivenFinal1000 < -200
    /\ r.sentiment = "Neutral" <=> (GivenFinal1000 >= -200 /\ GivenFinal1000 <= 200)

\* fallback_analysis has returned for a final score of exactly 0.2, reached
\* with a rating outside 1..5
C17_Witness ==
  /\ fn_call.fn = "fallback_analysis"
  /\ FallbackResults # {}
  /\ fn_given.rating[1] \notin 1..5
  /\ GivenFinal1000 = 200
  /\ \A r \in FallbackResults : r.sentiment = "Neutral" /\ r.sentiment_score = 200

EngineResults ==
  IF fn_call.fn \in {"fallback_analysis", "analyze_with_github"} THEN Returned ELSE {}

\* C19: every SentimentResult carries at least 3 analysis_reasons, whether
\* it comes from the fallback (Positive, Negative or Neutral) or from the
\* answer of the model.
C19_ThreeReasons ==
  \A r \in EngineResults : Len(r.analysis_reasons) >= 3

\* a SentimentResult within the limits of its fields
WellFormed(r) ==
  /\ r.sentiment \in {"Positive", "Neutral", "Negative"}
  /\ r.sentiment_score \in -1000..1000
  /\ Len(r.themes) <= 5
  /\ Len(r.ai_suggestions) <= 5

\* C20: every SentimentResult that smart_batch_analyze returns or persists
\* is well formed: a sentiment of the three, a score in [-1.0, 1.0], at most
\* 5 themes and at most 5 ai_suggestions.
C20_WellFormed ==
  /\ (pc = "returned" /\ response.success) =>
       \A k \in 1..Len(response.results) : WellFormed(response.results[k])
  /\ \A row \in sentiment_analysis : WellFormed(row)

\* ------------------------------------------------------------------------
\* C21-C22: what a result depends on and what it carries
\* ------------------------------------------------------------------------
\* the analysis proper of a result
AnalysisOf(r) ==
  [ sentiment |-> r.sentiment, sentiment_score |-> r.sentiment_score, themes |-> r.themes,
    analysis_reasons |-> r.analysis_reasons, ai_suggestions |-> r.ai_suggestions ]

\* ids and error messages a fallback call may be given
FallbackIds == {"REV001", "R1"}
FallbackCauses == {"", "timeout", "'themes'"}

\* C21: the fallback is deterministic and independent of the failure cause:
\* every fallback_analysis call with the review text and rating of the call
\* in hand returns the same sentiment, sentiment_score, themes,
\* analysis_reasons and ai_suggestions, whatever its id, its error message
\* and the time it is made; the error message shows in the note only.
C21_Deterministic ==
  fn_call.fn = "fallback_analysis" =>
    \A r \in FallbackResults :
      \A review_id \in FallbackIds, error_msg \in FallbackCauses :
        LET q == fallback_analysis(fn_given.review, fn_given.rating, review_id, error_msg)
        IN  /\ AnalysisOf(q) = AnalysisOf(r)
            /\ q.note = NoteOf(error_msg)
            /\ [q EXCEPT !.id = r.id, !.note = r.note] = r

\* fallback_analysis has returned twice for a call made after a timeout of
\* the remote call, on a text that is not Neutral
C21_Witness ==
  /\ fn_call.fn = "fallback_analysis"
  /\ fn_given.error_msg = "timeout"
  /\ Len(fn_return) = 2
  /\ \A r \in FallbackResults : r.sentiment = "Negative"
  /\ FallbackResults # {}

\* C22: every result of analyze_with_github, from the model or from the
\* fallback, carries the id, reviewer_name, review_at and is_google of the
\* call: the fields are present and equal to the arguments.
C22_CarriesCallerFields ==
  fn_call.fn = "analyze_with_github" =>
    \A r \in EngineResults :
      /\ {"id", "reviewer_name", "review_at", "is_google"} \subseteq DOMAIN r
      /\ r.id = fn_given.review_id
      /\ r.reviewer_name = fn_given.reviewer_name
      /\ r.review_at = fn_given.review_at
      /\ r.is_google = fn_given.is_google

\* ------------------------------------------------------------------------
\* C23-C26: the outcome of a batch
\* ------------------------------------------------------------------------
\* C23: in every successful outcome processed = from_cache + newly_analyzed,
\* also when analyses of the batch have failed.
C23_ProcessedSum ==
  (pc = "returned" /\ response.success) =>
    response.processed = response.from_cache + response.newly_analyzed

\* the input positions whose review ended in state s
Ended(s) == {i \in 1..Len(item_state) : item_state[i] = s}

\* C24: in a batch that returns success, every input review has ended in
\* exactly one of discarded, cache hit, analysed or failed; results holds the
\* cache hits and the analysed reviews, skipped the cache hits, errors the
\* failed ones and nothing else, so total_reviews is the input count and is
\* discarded + processed + failed; the engine has been called exactly once
\* for every review that is neither discarded nor a cache hit.
C24_OneTerminalState ==
  (pc = "returned" /\ response.success) =>
    /\ Len(item_state) = Len(reviews)
    /\ \A i \in 1..Len(reviews) :
         /\ item_state[i] \in {"discarded", "cache_hit", "analyzed_success", "analyzed_error"}
         /\ item_state[i] = "discarded" <=> ReviewTextAt(i) = <<>>
         /\ Cardinality({k \in 1..Len(engine_calls) : engine_calls[k] = i})
              = (IF item_state[i] \in {"analyzed_success", "analyzed_error"} THEN 1 ELSE 0)
    /\ response.total_reviews = Len(reviews)
    /\ response.processed = Len(response.results)
    /\ response.failed = Len(response.errors)
    /\ response.from_cache = Len(response.skipped)
    /\ Cardinality({k \in 1..Len(response.results) : response.results[k].from_cache})
         = Cardinality(Ended("cache_hit"))
    /\ Cardinality({k \in 1..Len(response.results) : ~response.results[k].from_cache})
         = Cardinality(Ended("analyzed_success"))
    /\ Len(response.skipped) = Cardinality(Ended("cache_hit"))
    /\ Len(response.errors) = Cardinality(Ended("analyzed_error"))
    /\ response.total_reviews
         = Cardinality(Ended("discarded")) + response.processed + response.failed

\* a successful batch in which one review was a cache hit and another failed
C24_Witness ==
  /\ pc = "returned"
  /\ response.success
  /\ Ended("cache_hit") # {}
  /\ Ended("analyzed_error") # {}

\* the rows written to the store by the request in hand
WrittenNow == {row \in sentiment_analysis : row.updated_at = now}

\* C25: a batch that returns a batch-level failure (success = false with a
\* message) has no partial results: the response lists no results and no
\* result of the batch has been written to the store.
C25_NoPartialResults ==
  (pc = "returned" /\ ~response.success) =>
    /\ "results" \notin DOMAIN response
    /\ WrittenNow = {}

\* C26: every entry of errors names the review it comes from: in sequential
\* mode by the id of a review of the request that failed, in parallel mode
\* by the position of a failed review in the input list (counted from 0),
\* also when reviews before it were discarded or served from the store.
C26_ErrorsNameTheirReview ==
  (pc = "returned" /\ response.success) =>
    \A k \in 1..Len(response.errors) :
      IF parallel
        THEN /\ response.errors[k].index + 1 \in 1..Len(reviews)
             /\ item_state[response.errors[k].index + 1] = "analyzed_error"
        ELSE \E i \in Ended("analyzed_error") : ReviewIdAt(i) = response.errors[k].id

\* ------------------------------------------------------------------------
\* C27: the id of a review
\* ------------------------------------------------------------------------
\* C27: the id a review is analysed and stored under is stable: a second
\* ingestion of the same review, through format_review_for_analysis or as a
\* second smart_batch_analyze submission, gives the id of the first, also
\* when the review has no reviewId / id of its own.
C27_StableId ==
  (fn_call.fn \in {"format_review_for_analysis", "smart_batch_analyze"} /\ Len(fn_return) = 2) =>
    fn_return[1].id = fn_return[2].id

\* ------------------------------------------------------------------------
\* C28: what the resets remove
\* ------------------------------------------------------------------------
\* the reset call of this step returned v (a reset step is the only one that
\* counts in resets)
ResetReturned(v) == resets' = resets + 1 /\ scraper_returned' = v

\* the index of instance i after the step
IndexAfter(i) == scraped_review_ids'[i][1]

\* the instances that exist
Live == {i \in Instances : ~IsNone(scraped_review_ids[i])}

\* C28: reset_cache_for_location(place_id) removes the whole fingerprint set
\* of place_id from the index of the instance and leaves the set of every
\* other place_id as it was, and changes nothing when the place_id is not in
\* the index; reset_all_cache leaves no fingerprint for any place_id.
C28_ResetFrame ==
  [][ /\ ResetReturned(Some(TRUE)) =>
           \E i \in Live, place_id \in Places :
             /\ place_id \in DOMAIN IndexOf(i)
             /\ FingerprintsOf(IndexAfter(i), place_id) = {}
             /\ DOMAIN IndexAfter(i) = DOMAIN IndexOf(i) \ {place_id}
             /\ \A p \in Places \ {place_id} :
                  FingerprintsOf(IndexAfter(i), p) = FingerprintsOf(IndexOf(i), p)
             /\ \A j \in Instances \ {i} : scraped_review_ids'[j] = scraped_review_ids[j]
      /\ ResetReturned(Some(FALSE)) =>
           /\ scraped_review_ids' = scraped_review_ids
           /\ \E i \in Live, place_id \in Places : place_id \notin DOMAIN IndexOf(i)
      /\ ResetReturned(None) =>
           \E i \in Live :
             /\ \A p \in Places \cup {NoPlace} : FingerprintsOf(IndexAfter(i), p) = {}
             /\ \A j \in Instances \ {i} : scraped_review_ids'[j] = scraped_review_ids[j]
    ]_vars

\* a reset of one place has returned True in an instance that keeps the
\* fingerprints of another place
C28_Witness ==
  /\ ResetHasReturned(TRUE)
  /\ \E i \in Live : \E p \in DOMAIN IndexOf(i) : IndexOf(i)[p] # {}

\* ------------------------------------------------------------------------
\* C29: sequential mode
\* ------------------------------------------------------------------------
\* the engine calls of the request that have started and whose review has not
\* reached results or errors yet (its analysis or its upsert is in progress)
InProgress == {k \in 1..Len(engine_calls) : item_state[engine_calls[k]] = "needs_analysis"}

\* the engine call and the upsert of the review at input position i are over
Completed(i) ==
  /\ item_state[i] \in {"analyzed_success", "analyzed_error"}
  /\ item_trace[i].engine # "none"
  /\ item_trace[i].engine # "raised" => item_trace[i].save # "none"

\* C29: with parallel_processing = false the reviews that need analysis are
\* handled one after the other, in their order: when the engine call of a
\* review starts, the engine call and the upsert of every review before it
\* have completed, so at most one analysis or upsert is in progress at any
\* time.
C29_OneAtATime ==
  (~parallel /\ pc \in {"seq", "seq_wait", "returned"}) =>
    /\ engine_calls = SubSeq(origin, 1, Len(engine_calls))
    /\ Cardinality(InProgress) <= 1
    /\ \A k \in 1..Len(engine_calls) :
         (k < Len(engine_calls) \/ pc # "seq_wait") => Completed(engine_calls[k])
    /\ pc = "seq_wait" => InProgress = {Len(engine_calls)} /\ Len(engine_calls) = pos
    /\ pc = "seq" => Len(engine_calls) = pos - 1

\* the engine call of the second review that needs analysis is in progress
\* and the first one has been analysed and saved
C29_Witness ==
  /\ ~parallel
  /\ pc = "seq_wait"
  /\ Len(engine_calls) = 2
  /\ item_trace[engine_calls[1]].save = "saved"

\* ------------------------------------------------------------------------
\* C30: the endpoint that takes its reviews from the database
\* ------------------------------------------------------------------------
\* the rows of the store with this id and text
SameInStore(review_id, review_text) ==
  {row \in sentiment_analysis : row.id = review_id /\ row.review_text = review_text}

\* C30: smart_batch_analyze_auto, called when the database holds reviews,
\* returns a success = true outcome over at most limit reviews, in which the
\* reviews already analysed (same id and text) come from the store with
\* from_cache = true and the others have been analysed by the engine and
\* saved.
C30_AutoServesFromStore ==
  [][ (SmartBatchAnalyzeAuto /\ sentiment_analysis # {}) =>
        /\ response'.success
        /\ response'.total_reviews <= 5
        /\ response'.processed = response'.from_cache + response'.newly_analyzed
        /\ \A k \in 1..Len(response'.results) :
             LET r == response'.results[k]
             IN  IF SameInStore(r.id, r.review_text) # {}
                   THEN r.from_cache
                   ELSE ~r.from_cache /\ \E row \in sentiment_analysis' : row.id = r.id
    ]_vars

\* ------------------------------------------------------------------------
\* C31: one engine call per review id
\* ------------------------------------------------------------------------
\* the engine calls of the request made for reviews that carry this id
CallsFor(review_id) == {k \in 1..Len(engine_calls) : ReviewIdAt(engine_calls[k]) = review_id}

\* C31: within one smart_batch_analyze call the engine is invoked at most
\* once per review id: an id that the input list holds more than once with
\* the same text gets one analysis and one upsert.
C31_OncePerId ==
  \A i \in 1..Len(reviews), j \in 1..Len(reviews) :
    (i < j /\ ReviewIdAt(i) = ReviewIdAt(j) /\ ReviewTextAt(i) = ReviewTextAt(j)) =>
      /\ Cardinality(CallsFor(ReviewIdAt(i))) <= 1
      /\ ~(item_trace[i].save = "saved" /\ item_trace[j].save = "saved")

\* ------------------------------------------------------------------------
\* C32: a failed analysis and the dedup index
\* ------------------------------------------------------------------------
\* the reviews that the scrape_location call in hand returned as new and
\* valid, as the actor delivered them
Delivered ==
  {filter_call[1].new_reviews[k] : k \in
     {n \in 1..Len(filter_call[1].new_reviews) :
        filter_reviews(<<filter_call[1].new_reviews[n]>>).valid_reviews # <<>>}}

\* a scrape_location call of the instance, made after this step for the same
\* place and delivering review, returns it as new
EligibleAfter(review) ==
  LET i == filter_call[1].inst
  IN  _filter_new_reviews(<<review>>, filter_call[1].place_id, scraped_review_ids'[i][1],
                          str_hash').new_reviews = <<review>>

\* the analysis request of process_location has failed in this step
AnalysisFailed ==
  /\ AnalyzeScraped
  /\ ~IsNone(filter_call)
  /\ "sentiment_analysis" \in DOMAIN scraper_returned'[1]
  /\ ~scraper_returned'[1].analyzed

\* C32: a failed analysis does not consume the dedup eligibility of a review:
\* a review that scrape_location returned as new and whose analysis then
\* fails in process_location is returned as new again by a later call for the
\* same place.
C32_FailureKeepsEligible ==
  [][ AnalysisFailed => \A review \in Delivered : EligibleAfter(review) ]_vars

\* ------------------------------------------------------------------------
\* C33: the text of a valid review
\* ------------------------------------------------------------------------
\* smart_batch_analyze discards the review as one without text (lines
\* 142-145); full_review is review.get("text") or review.get("reviewText")
\* or "" of the scraped review (SentimentConnector.py:17-22)
DiscardedAsEmpty(review) == TextOf(review) = <<>>

\* C33: every review in the valid_reviews of filter_reviews has a normalized
\* text of at least 3 characters, so smart_batch_analyze discards none of
\* them as a review without text.
C33_ValidHasText ==
  fn_call.fn = "filter_reviews" =>
    \A n \in 1..Len(fn_return) : \A k \in 1..Len(fn_return[n].valid_reviews) :
      /\ Len(fn_return[n].valid_reviews[k].text) >= 3
      /\ ~DiscardedAsEmpty(fn_return[n].valid_reviews[k])

\* ------------------------------------------------------------------------
\* C34: the label and the reported score
\* ------------------------------------------------------------------------
\* C34: in every fallback result the label agrees with the reported score:
\* sentiment is Positive exactly when sentiment_score (the clamped final
\* score rounded to two decimals) is above 0.2, Negative exactly when it is
\* below -0.2, and Neutral otherwise.
C34_LabelMatchesScore ==
  \A r \in FallbackResults : r.sentiment = Classify(r.sentiment_score)

\* ------------------------------------------------------------------------
\* C35: the status of a job
\* ------------------------------------------------------------------------
\* C35: a job is put in jobs_storage with status "processing"; its status
\* changes only from "processing", to "completed" or to "failed", so at most
\* once and never after it is "completed" or "failed"; no job is removed
\* from jobs_storage.
C35_StatusOnce ==
  [][ /\ DOMAIN jobs_storage \subseteq DOMAIN jobs_storage'
      /\ \A job_id \in DOMAIN jobs_storage' \ DOMAIN jobs_storage :
           jobs_storage'[job_id].status = "processing"
      /\ \A job_id \in DOMAIN jobs_storage :
           jobs_storage'[job_id].status # jobs_storage[job_id].status =>
             /\ jobs_storage[job_id].status = "processing"
             /\ jobs_storage'[job_id].status \in {"completed", "failed"}
    ]_vars

\* one job has completed and the other has failed, and both tasks are over
C35_Witness ==
  /\ JobsWith("completed") # {}
  /\ JobsWith("failed") # {}
  /\ \A job_id \in DOMAIN job_task : job_task[job_id].pc = "done"

\* ------------------------------------------------------------------------
\* C36: what a reader of jobs_storage can see
\* ------------------------------------------------------------------------
\* the record of a job is consistent
ConsistentJob(job) ==
  /\ job.progress.stage = "completed" =>
       job.progress.percentage = 100 /\ job.status = "completed" /\ "result" \in DOMAIN job
  /\ job.status = "completed" => "result" \in DOMAIN job
  /\ job.status = "failed" => "error" \in DOMAIN job

\* C36: in every state that a get_job_status or get_stats request running
\* next to the background task can observe, the record of a job is
\* consistent: progress stage "completed" (100%) comes with status
\* "completed" and a result, status "completed" with a result, status
\* "failed" with an error field.
C36_ConsistentRecord ==
  /\ \A job_id \in DOMAIN jobs_storage : ConsistentJob(jobs_storage[job_id])
  /\ (http_response # None /\ http_response[1].endpoint = "job" /\ http_response[1].status_code = 200) =>
       ConsistentJob(http_response[1].body)

\* ------------------------------------------------------------------------
\* C37: every job ends
\* ------------------------------------------------------------------------
\* the job exists and its status is "completed" or "failed"
Finished(job_id) ==
  job_id \in DOMAIN jobs_storage /\ jobs_storage[job_id].status \in {"completed", "failed"}

\* C37: every job created by /api/scrape-async reaches status "completed" or
\* "failed" when its background task is run and the pipeline call returns or
\* raises: no outcome of process_location (success, reported failure,
\* exception) leaves the job in "processing".
C37_JobEnds ==
  \A k \in 1..MaxJobs : (JobIds[k] \in DOMAIN jobs_storage) ~> Finished(JobIds[k])

\* the tasks of two jobs are over: the pipeline raised in one and reported
\* a failure in the other
C37_Witness ==
  /\ \A k \in 1..MaxJobs : Finished(JobIds[k]) /\ job_task[JobIds[k]].pc = "done"
  /\ \E j \in DOMAIN job_task : IsException(job_task[j].result)
  /\ \E j \in DOMAIN job_task : ~IsException(job_task[j].result) /\ ~job_task[j].result.success

\* ------------------------------------------------------------------------
\* C38: the status codes of /api/scrape
\* ------------------------------------------------------------------------
\* C38: /api/scrape answers with status 400 and the error of the pipeline
\* when process_location returns success = false, with status 500 only when
\* the pipeline raises, and with the result itself when it succeeds.
C38_StatusCodes ==
  (http_response # None /\ http_response[1].endpoint = "scrape") =>
    LET result   == pipeline_outcome[1]
        answer == http_response[1]
    IN  IF IsException(result) THEN answer.status_code = 500
        ELSE IF ~result.success
          THEN answer.status_code = 400 /\ answer.detail = Get(result, "error", "None")
          ELSE answer.status_code = 200 /\ answer.body = result

====
